---- MODULE Spec2Model ----
(***************************************************************************)
(* TacOS memory-management core: physical frame allocator (frame.rs),      *)
(* two-level page tables (paging.rs), kernel heap (heap.rs) and vmalloc    *)
(* (virt.rs), with the boot sequence of memory/mod.rs.                     *)
(*                                                                         *)
(* Representation.  Every module's statics are one record variable whose   *)
(* fields carry the statics' names (frame.BITMAP, heap.HEAP_BRK, ...).      *)
(* Physical RAM is the variable mem: a function from the number of every   *)
(* frame the kernel has written to that frame's 1024 words.  A word never  *)
(* written reads as boot.fill, the content RAM happened to have.           *)
(* The page directory, the page tables and the heap's block headers all    *)
(* live in mem, as they do in the machine.  The kernel runs identity       *)
(* mapped, so a pointer dereference in the code is a read or write of mem  *)
(* at that address.                                                        *)
(*                                                                         *)
(* frame.BITMAP holds the maximal runs <<first, last>> of frames whose bit  *)
(* is 0 (free); every other bit of the 1M-bit vector is 1 (used).          *)
(*                                                                         *)
(* A function of the code is an operator from a machine state (a record    *)
(* St of the module records and mem) to a record [S |-> state after,       *)
(* r |-> returned value].  kernel_panic! never returns: it sets S.halted.  *)
(***************************************************************************)
EXTENDS Integers, Sequences, FiniteSets, TLC

VARIABLES
    phase,          \* position inside memory::init, then "run"
    boot,           \* what the boot loader and the linker hand the kernel
    TOTAL_MEMORY,   \* mod.rs static
    frame,          \* frame.rs statics
    paging,         \* paging.rs statics
    heap,           \* heap.rs statics
    virt,           \* virt.rs statics
    mem,            \* physical RAM, frame -> [0..1023 -> u32]
    halted,         \* "" or the message of the kernel_panic! that stopped the CPU
    ret,            \* the call just made: [op, args, r]
    live,           \* pointers returned by kmalloc and not yet passed to kfree
    owned,          \* frames returned by alloc_frame/alloc_frames, not yet freed
    nops,           \* number of calls made since memory::init returned
    used_at_init,   \* frame.USED_FRAMES when memory::init returned
    vgiven,         \* what vmalloc has returned so far: [vaddr, size]
    callers         \* two contexts that call alloc_frame: whether calls run
                    \* with interrupts disabled (cs), and per context the
                    \* position in alloc_frame, its local `frame` and the
                    \* address it returned last

vars == <<phase, boot, TOTAL_MEMORY, frame, paging, heap, virt, mem, halted,
          ret, live, owned, nops, used_at_init, vgiven, callers>>

----------------------------------------------------------------------------
(* u32 arithmetic.  The model checker's integers are 32-bit signed, so a   *)
(* u32 of the code is held as the signed integer with the same 32 bits     *)
(* (two's complement): a value below 2^31 is itself, a value v at or above *)
(* 2^31 is v - 2^32.  Add32, Sub32 and Mul32 wrap as the machine does;     *)
(* ULt .. UGe compare as unsigned; UDiv divides as unsigned.  x % n with n *)
(* a power of two gives the low bits in either form.  Frame numbers,       *)
(* indices and counts are small and are the same in both forms.            *)

MaxInt == 32767 * 65536 + 65535

MinInt == -2147483647 - 1

\* the u32 whose upper and lower 16 bits are hi and lo
U32(hi, lo) == (IF hi >= 32768 THEN hi - 65536 ELSE hi) * 65536 + lo

ULt(a, b) == IF (a < 0) = (b < 0) THEN a < b ELSE b < 0

ULe(a, b) == a = b \/ ULt(a, b)

UGt(a, b) == ULt(b, a)

UGe(a, b) == ULe(b, a)

\* a.wrapping_add(b)
Add32(a, b) ==
    IF a >= 0 /\ b >= 0 /\ a > MaxInt - b THEN (a + MinInt) + (b + MinInt)
    ELSE IF a < 0 /\ b < 0 /\ a < MinInt - b THEN (a - MinInt) + (b - MinInt)
    ELSE a + b

Neg32(b) == IF b = MinInt THEN MinInt ELSE 0 - b

\* a.wrapping_sub(b)
Sub32(a, b) == Add32(a, Neg32(b))

\* a.wrapping_mul(n), n a power of two >= 4 (every multiplier of the code is)
Mul32(a, n) ==
    LET half == (MaxInt \div n) + 1
        t == a % (2 * half)
    IN  IF t >= half THEN (t - 2 * half) * n ELSE t * n

\* a / n as unsigned, n a power of two >= 4
UDiv(a, n) == (a \div n) + (IF a < 0 THEN 2 * ((MaxInt \div n) + 1) ELSE 0)

\* a.saturating_add(b)
SatAdd32(a, b) == LET s == Add32(a, b) IN IF ULt(s, a) THEN -1 ELSE s

\* F(x), with x evaluated once before F uses it: the code computes a value and
\* then reads it several times
Then(x, F(_)) == CHOOSE y \in {F(v) : v \in {x}} : TRUE

----------------------------------------------------------------------------
(* memory/mod.rs                                                           *)

PAGE_SIZE == 4096

\* (addr + align - 1) & !(align - 1), align a power of two
align_up(addr, align) ==
    LET t == Add32(addr, align - 1) IN t - (t % align)

\* addr & !(align - 1)
align_down(addr, align) == addr - (addr % align)

\* parse_multiboot_info: (mem_lower, mem_upper) in KB
parse_multiboot_info(b) ==
    IF ~b.present THEN <<640, 130048>>
    ELSE IF b.flags % 2 = 1 THEN <<b.mem_lower, b.mem_upper>>
    ELSE <<640, 130048>>

\* TOTAL_MEMORY as memory::init sets it
total_memory_of(b) ==
    LET p == parse_multiboot_info(b)
        total_kb == Add32(Add32(p[1], p[2]), 1024)
    IN  Mul32(total_kb, 1024)

\* the (base, length) pairs walk_memory_map hands its callback, in order
RECURSIVE mmap_regions(_)
mmap_regions(entries) ==
    IF entries = <<>> THEN <<>>
    ELSE LET e == Head(entries)
             rest == mmap_regions(Tail(entries))
         IN  IF e.etype = 1 /\ e.base_high = 0
             THEN <<(<<e.base_low, e.len_low>>)>> \o rest
             ELSE rest

DefaultRegions == << <<0, 640 * 1024>>, <<1048576, 127 * 1024 * 1024>> >>

walk_memory_map(b) ==
    IF ~b.present THEN DefaultRegions
    ELSE IF (b.flags \div 64) % 2 = 1 THEN mmap_regions(b.mmap)
    ELSE IF b.flags % 2 = 1
         THEN << <<0, Mul32(b.mem_lower, 1024)>>,
                 <<1048576, Mul32(b.mem_upper, 1024)>> >>
    ELSE DefaultRegions

----------------------------------------------------------------------------
(* memory/frame.rs                                                         *)

MAX_FRAMES == 1048576

BITMAP_SIZE == MAX_FRAMES \div 8

LOW_END_FRAME == 256

\* the runs of BITMAP that hold frame f
runs_at(B, f) == {iv \in B : iv[1] <= f /\ f <= iv[2]}

\* BITMAP with the bits of lo..hi set to 1
set_bits(B, lo, hi) ==
    {iv \in B : iv[2] < lo \/ iv[1] > hi}
    \cup {<<iv[1], lo - 1>> : iv \in {v \in B : v[1] < lo /\ v[2] >= lo}}
    \cup {<<hi + 1, iv[2]>> : iv \in {v \in B : v[2] > hi /\ v[1] <= hi}}

\* BITMAP with the bits of lo..hi cleared to 0 (lo <= hi)
clear_bits(B, lo, hi) ==
    LET touch == {iv \in B : iv[1] <= hi + 1 /\ iv[2] >= lo - 1}
        los == {iv[1] : iv \in touch} \cup {lo}
        his == {iv[2] : iv \in touch} \cup {hi}
    IN  (B \ touch) \cup {<<CHOOSE x \in los : \A y \in los : x <= y,
                            CHOOSE x \in his : \A y \in his : x >= y>>}

\* the number of 0 bits among the frames 0..n-1
RECURSIVE clear_below(_, _)
clear_below(B, n) ==
    IF B = {} THEN 0
    ELSE LET iv == CHOOSE v \in B : TRUE
             top == IF iv[2] < n THEN iv[2] ELSE n - 1
         IN  (IF top >= iv[1] THEN top - iv[1] + 1 ELSE 0)
             + clear_below(B \ {iv}, n)

\* bitmap_test: TRUE when the frame's bit is 1 (used); out of range = used
bitmap_test(F, f) ==
    IF UDiv(f, 8) < BITMAP_SIZE THEN runs_at(F.BITMAP, f) = {} ELSE TRUE

\* bitmap_set that leaves the bit as it is
bitmap_set_nothing(F, f) == F

\* bitmap_set
bitmap_set(F, f) ==
    IF UDiv(f, 8) < BITMAP_SIZE THEN [F EXCEPT !.BITMAP = set_bits(@, f, f)]
    ELSE F

\* bitmap_clear
bitmap_clear(F, f) ==
    IF UDiv(f, 8) < BITMAP_SIZE THEN [F EXCEPT !.BITMAP = clear_bits(@, f, f)]
    ELSE F

\* the frames the callback of frame::init clears for one region: the bounds
\* <<start_frame, last frame>> of `while frame < end_frame` under
\* `if frame < MAX_FRAMES`
region_frames(base, length) ==
    LET start_frame == UDiv(align_up(base, PAGE_SIZE), PAGE_SIZE)
        end_addr == SatAdd32(base, length)
        end_frame == UDiv(align_down(end_addr, PAGE_SIZE), PAGE_SIZE)
    IN  <<start_frame,
          (IF end_frame < MAX_FRAMES THEN end_frame ELSE MAX_FRAMES) - 1>>

\* step 2 of frame::init, one callback per region
RECURSIVE clear_regions(_, _)
clear_regions(B, regions) ==
    IF regions = <<>> THEN B
    ELSE LET r == region_frames(Head(regions)[1], Head(regions)[2])
         IN  clear_regions(IF r[1] <= r[2] THEN clear_bits(B, r[1], r[2])
                           ELSE B,
                           Tail(regions))

\* the frames of step 4 of frame::init: <<first, last>>
kernel_frames(b) ==
    <<UDiv(b.kernel_start, PAGE_SIZE),
      UDiv(align_up(b.kernel_end, PAGE_SIZE), PAGE_SIZE) - 1>>

\* frame::init with step 5 run before steps 3 and 4: the frames counted used
\* are those of the region walk alone
frame_init_counts_early(b, total_memory) ==
    LET step2 == clear_regions({}, walk_memory_map(b))
        step3 == set_bits(step2, 0, LOW_END_FRAME - 1)
        step4 == set_bits(step3, kernel_frames(b)[1], kernel_frames(b)[2])
        max_frame == IF total_memory # 0 THEN UDiv(total_memory, PAGE_SIZE)
                     ELSE MAX_FRAMES
    IN  [BITMAP |-> step4, TOTAL_FRAMES |-> max_frame,
         USED_FRAMES |-> max_frame - clear_below(step2, max_frame)]

\* frame::init: the statics after it ran
frame_init(b, total_memory) ==
    LET step1 == {}
        step2 == clear_regions(step1, walk_memory_map(b))
        step3 == set_bits(step2, 0, LOW_END_FRAME - 1)
        step4 == set_bits(step3, kernel_frames(b)[1], kernel_frames(b)[2])
        max_frame == IF total_memory # 0 THEN UDiv(total_memory, PAGE_SIZE)
                     ELSE MAX_FRAMES
        used == max_frame - clear_below(step4, max_frame)
    IN  [BITMAP |-> step4, TOTAL_FRAMES |-> max_frame, USED_FRAMES |-> used]

\* the scan `while frame < hi { if !bitmap_test(frame) { .. return } frame += 1 }`
\* from frame lo: the first frame of lo..hi-1 whose bit is clear, or -1
first_clear(F, lo, hi) ==
    LET c == {IF iv[1] > lo THEN iv[1] ELSE lo :
                 iv \in {v \in F.BITMAP : v[2] >= lo /\ v[1] < hi}}
    IN  IF c = {} \/ lo >= hi THEN -1
        ELSE CHOOSE x \in c : \A y \in c : x <= y

\* alloc_frame
alloc_frame(S) ==
    LET F == S.frame
        a == first_clear(F, LOW_END_FRAME, F.TOTAL_FRAMES)
        b == first_clear(F, 0, LOW_END_FRAME)
        f == IF a # -1 THEN a ELSE b
    IN  IF f = -1 THEN [S |-> S, r |-> 0]
        ELSE [S |-> [S EXCEPT !.frame = [bitmap_set(F, f) EXCEPT
                                  !.USED_FRAMES = Add32(F.USED_FRAMES, 1)]],
              r |-> Mul32(f, PAGE_SIZE)]

\* free_frame without `USED_FRAMES -= 1`
free_frame_keeps_count(S, addr) ==
    LET F == S.frame
        f == UDiv(addr, PAGE_SIZE)
    IN  IF addr % PAGE_SIZE # 0
        THEN [S EXCEPT !.halted = "free_frame: address not page-aligned"]
        ELSE IF ~bitmap_test(F, f)
        THEN [S EXCEPT !.halted = "free_frame: double free detected"]
        ELSE [S EXCEPT !.frame = bitmap_clear(F, f)]

\* free_frame
free_frame(S, addr) ==
    LET F == S.frame
        f == UDiv(addr, PAGE_SIZE)
    IN  IF addr % PAGE_SIZE # 0
        THEN [S EXCEPT !.halted = "free_frame: address not page-aligned"]
        ELSE IF ~bitmap_test(F, f)
        THEN [S EXCEPT !.halted = "free_frame: double free detected"]
        ELSE [S EXCEPT !.frame = [bitmap_clear(F, f) EXCEPT
                  !.USED_FRAMES = IF @ # 0 THEN Sub32(@, 1) ELSE @]]

\* the scan of alloc_frames testing only the first frame of each window
scan_frames_first_only(F, f, count) ==
    LET c == {x \in {IF iv[1] > f THEN iv[1] ELSE f : iv \in F.BITMAP} :
                 /\ x + count <= F.TOTAL_FRAMES
                 /\ \E iv \in F.BITMAP : iv[1] <= x /\ x <= iv[2]}
    IN  IF c = {} THEN -1 ELSE CHOOSE x \in c : \A y \in c : x <= y

\* the scan of alloc_frames from frame `f`: the first base at or after f with
\* `count` clear bits in a row that end at or below TOTAL_FRAMES, or -1.  A
\* used frame sends the scan past it, so the base is the start of a free run
\* (or f itself inside one) that is long enough.
scan_frames(F, f, count) ==
    LET c == {x \in {IF iv[1] > f THEN iv[1] ELSE f : iv \in F.BITMAP} :
                 /\ x + count <= F.TOTAL_FRAMES
                 /\ \E iv \in F.BITMAP : iv[1] <= x /\ x + count - 1 <= iv[2]}
    IN  IF c = {} THEN -1 ELSE CHOOSE x \in c : \A y \in c : x <= y

\* the loop of alloc_frames that sets the bits of f..f+count-1
RECURSIVE set_frames(_, _, _, _)
set_frames(F, f, i, count) ==
    IF i >= count THEN F
    ELSE set_frames(bitmap_set(F, Add32(f, i)), f, i + 1, count)

\* alloc_frames
alloc_frames(S, count) ==
    IF count = 0 THEN [S |-> S, r |-> 0]
    ELSE IF count = 1 THEN alloc_frame(S)
    ELSE LET F == S.frame
             f == scan_frames(F, LOW_END_FRAME, count)
         IN  IF f = -1 THEN [S |-> S, r |-> 0]
             ELSE [S |-> [S EXCEPT !.frame =
                             [set_frames(F, f, 0, count) EXCEPT
                                 !.USED_FRAMES = Add32(@, count)]],
                   r |-> Mul32(f, PAGE_SIZE)]

\* the loop of free_frames over the turns i..count-1: one turn as the code
\* writes it, a longer stretch as its first half followed by its second
RECURSIVE free_frames_from(_, _, _, _)
free_frames_from(F, start_frame, i, count) ==
    IF i >= count THEN F
    ELSE IF i + 1 = count
    THEN LET f == Add32(start_frame, i)
         IN  IF bitmap_test(F, f)
             THEN [bitmap_clear(F, f) EXCEPT
                      !.USED_FRAMES = IF @ # 0 THEN Sub32(@, 1) ELSE @]
             ELSE F
    ELSE Then(free_frames_from(F, start_frame, i, i + (count - i) \div 2),
              LAMBDA G : free_frames_from(G, start_frame,
                                          i + (count - i) \div 2, count))

\* free_frames
free_frames(S, addr, count) ==
    [S EXCEPT !.frame = free_frames_from(@, UDiv(addr, PAGE_SIZE), 0, count)]

\* reserve_frame without the test of the bit: counts the frame every time
reserve_frame_always_counts(S, addr) ==
    [S EXCEPT !.frame = [bitmap_set(@, UDiv(addr, PAGE_SIZE)) EXCEPT
                            !.USED_FRAMES = Add32(@, 1)]]

\* reserve_frame
reserve_frame(S, addr) ==
    LET F == S.frame
        f == UDiv(addr, PAGE_SIZE)
    IN  IF ~bitmap_test(F, f)
        THEN [S EXCEPT !.frame = [bitmap_set(F, f) EXCEPT
                                     !.USED_FRAMES = Add32(@, 1)]]
        ELSE S

\* is_frame_used
is_frame_used(S, addr) == bitmap_test(S.frame, UDiv(addr, PAGE_SIZE))

\* free_frames_count
free_frames_count(S) ==
    IF S.frame.TOTAL_FRAMES > S.frame.USED_FRAMES
    THEN S.frame.TOTAL_FRAMES - S.frame.USED_FRAMES ELSE 0

----------------------------------------------------------------------------
(* physical RAM                                                            *)

WORDS_PER_PAGE == PAGE_SIZE \div 4

\* the frame and the word index of the aligned address a
frame_of(a) == UDiv(a, PAGE_SIZE)

word_of(a) == (a % PAGE_SIZE) \div 4

\* the 1024 words of frame f
Page(S, f) ==
    IF f \in DOMAIN S.mem THEN S.mem[f]
    ELSE [i \in 0 .. (WORDS_PER_PAGE - 1) |-> S.boot.fill]

\* the aligned word at a (a % 4 = 0)
Word(S, a) ==
    IF frame_of(a) \in DOMAIN S.mem THEN S.mem[frame_of(a)][word_of(a)]
    ELSE S.boot.fill

\* 256^k
Pow256(k) == IF k = 1 THEN 256 ELSE IF k = 2 THEN 65536 ELSE 16777216

\* *(a as *const u32), little endian; an unaligned read spans two words
Read(S, a) ==
    LET k == a % 4
        lo == Word(S, a - k)
        hi == Word(S, Add32(a - k, 4))
    IN  IF k = 0 THEN lo
        ELSE Add32(UDiv(lo, Pow256(k)), Mul32(hi % Pow256(k), Pow256(4 - k)))

SetWord(S, a, v) ==
    IF frame_of(a) \in DOMAIN S.mem
    THEN [S EXCEPT !.mem[frame_of(a)][word_of(a)] = v]
    ELSE [S EXCEPT !.mem = (frame_of(a) :>
                               [Page(S, frame_of(a)) EXCEPT ![word_of(a)] = v])
                           @@ @]

\* *(a as *mut u32) = v
Write(S, a, v) ==
    LET k == a % 4
        lo == Word(S, a - k)
        hi == Word(S, Add32(a - k, 4))
    IN  IF k = 0 THEN SetWord(S, a, v)
        ELSE SetWord(
                 SetWord(S, a - k,
                         Add32(lo % Pow256(k),
                               Mul32(v % Pow256(4 - k), Pow256(k)))),
                 Add32(a - k, 4),
                 Add32(UDiv(v, Pow256(4 - k)),
                       Mul32(UDiv(hi, Pow256(k)), Pow256(k))))

\* the words w(0), .., w(1023) stored in the page at base (base % 4096 = 0)
WritePage(S, base, w(_)) ==
    [S EXCEPT !.mem = (frame_of(base) :>
                          [i \in 0 .. (WORDS_PER_PAGE - 1) |-> w(i)]) @@ @]

----------------------------------------------------------------------------
(* memory/paging.rs                                                        *)

PAGE_PRESENT == 1

PAGE_WRITABLE == 2

PAGE_USER == 4

ENTRIES_PER_TABLE == 1024

\* 4 * 1024 * 1024, the bytes one page table maps
FOUR_MB == 4194304

\* flags | PAGE_PRESENT
or_present(flags) == IF flags % 2 = 1 THEN flags ELSE flags + 1

\* flags & PAGE_USER
and_user(flags) == IF (flags \div PAGE_USER) % 2 = 1 THEN PAGE_USER ELSE 0

\* entry & ADDR_MASK
entry_addr(entry) == entry - (entry % PAGE_SIZE)

\* entry & PAGE_PRESENT != 0
entry_present(entry) == entry % 2 = 1

\* (addr & ADDR_MASK) | (flags & 0xFFF)
make_pte(frame_phys_addr, flags) ==
    entry_addr(frame_phys_addr) + (flags % PAGE_SIZE)

make_pde(pt_phys_addr, flags) ==
    entry_addr(pt_phys_addr) + (flags % PAGE_SIZE)

\* (vaddr >> 22) & 0x3FF
pd_index(vaddr) == UDiv(vaddr, FOUR_MB) % ENTRIES_PER_TABLE

\* (vaddr >> 12) & 0x3FF
pt_index(vaddr) == UDiv(vaddr, PAGE_SIZE) % ENTRIES_PER_TABLE

ZeroWord(i) == 0

\* the loop of paging::init over the directory slots pde_idx..num_pdes-1
RECURSIVE init_tables(_, _, _, _)
init_tables(S, pd_addr, pde_idx, num_pdes) ==
    IF pde_idx >= num_pdes THEN S
    ELSE LET a == alloc_frame(S)
             pt_addr == a.r
             base == Mul32(pde_idx, FOUR_MB)
             Identity(i) == make_pte(Add32(base, i * PAGE_SIZE),
                                     PAGE_PRESENT + PAGE_WRITABLE)
         IN  IF pt_addr = 0
             THEN [a.S EXCEPT !.halted = "Failed to allocate page table"]
             ELSE init_tables(
                      Write(WritePage(a.S, pt_addr, Identity),
                            Add32(pd_addr, 4 * pde_idx),
                            make_pde(pt_addr, PAGE_PRESENT + PAGE_WRITABLE)),
                      pd_addr, pde_idx + 1, num_pdes)

\* paging::init with the table count rounded down: the last, partial 4 MB of
\* memory gets no table
paging_init_rounds_down(S) ==
    LET a == alloc_frame(S)
        pd_addr == a.r
        total_mem == S.TOTAL_MEMORY
        n == UDiv(total_mem, FOUR_MB)
        num_pdes == IF total_mem # 0 THEN (IF n > 1024 THEN 1024 ELSE n) ELSE 32
    IN  IF pd_addr = 0
        THEN [a.S EXCEPT !.halted = "Failed to allocate page directory"]
        ELSE LET T == init_tables(
                          WritePage(a.S, pd_addr, ZeroWord),
                          pd_addr, 0, num_pdes)
             IN  IF T.halted # "" THEN T
                 ELSE [T EXCEPT !.paging = [PAGE_DIRECTORY_ADDR |-> pd_addr,
                                            PAGING_ENABLED |-> TRUE]]

\* paging::init
paging_init(S) ==
    LET a == alloc_frame(S)
        pd_addr == a.r
        total_mem == S.TOTAL_MEMORY
        n == UDiv(align_up(total_mem, FOUR_MB), FOUR_MB)
        num_pdes == IF total_mem # 0 THEN (IF n > 1024 THEN 1024 ELSE n) ELSE 32
    IN  IF pd_addr = 0
        THEN [a.S EXCEPT !.halted = "Failed to allocate page directory"]
        ELSE LET T == init_tables(
                          WritePage(a.S, pd_addr, ZeroWord),
                          pd_addr, 0, num_pdes)
             IN  IF T.halted # "" THEN T
                 ELSE [T EXCEPT !.paging = [PAGE_DIRECTORY_ADDR |-> pd_addr,
                                            PAGING_ENABLED |-> TRUE]]

\* map_page without the loop that zeroes a new page table
map_page_table_not_zeroed(S, vaddr, paddr, flags) ==
    LET pd_addr == S.paging.PAGE_DIRECTORY_ADDR
        pdidx == pd_index(vaddr)
        ptidx == pt_index(vaddr)
        pde == Read(S, Add32(pd_addr, 4 * pdidx))
    IN  IF pd_addr = 0
        THEN [S EXCEPT !.halted = "map_page: paging not initialized"]
        ELSE IF entry_present(pde)
        THEN Write(S, Add32(entry_addr(pde), 4 * ptidx),
                   make_pte(paddr, or_present(flags)))
        ELSE LET a == alloc_frame(S)
                 pt_addr == a.r
                 pde_flags == PAGE_PRESENT + PAGE_WRITABLE + and_user(flags)
             IN  IF pt_addr = 0
                 THEN [a.S EXCEPT !.halted =
                          "map_page: failed to allocate page table"]
                 ELSE Write(
                          Write(a.S, Add32(pd_addr, 4 * pdidx),
                                make_pde(pt_addr, pde_flags)),
                          Add32(pt_addr, 4 * ptidx),
                          make_pte(paddr, or_present(flags)))

\* map_page
map_page(S, vaddr, paddr, flags) ==
    LET pd_addr == S.paging.PAGE_DIRECTORY_ADDR
        pdidx == pd_index(vaddr)
        ptidx == pt_index(vaddr)
        pde == Read(S, Add32(pd_addr, 4 * pdidx))
    IN  IF pd_addr = 0
        THEN [S EXCEPT !.halted = "map_page: paging not initialized"]
        ELSE IF entry_present(pde)
        THEN Write(S, Add32(entry_addr(pde), 4 * ptidx),
                   make_pte(paddr, or_present(flags)))
        ELSE LET a == alloc_frame(S)
                 pt_addr == a.r
                 pde_flags == PAGE_PRESENT + PAGE_WRITABLE + and_user(flags)
             IN  IF pt_addr = 0
                 THEN [a.S EXCEPT !.halted =
                          "map_page: failed to allocate page table"]
                 ELSE Write(
                          Write(WritePage(a.S, pt_addr, ZeroWord),
                                Add32(pd_addr, 4 * pdidx),
                                make_pde(pt_addr, pde_flags)),
                          Add32(pt_addr, 4 * ptidx),
                          make_pte(paddr, or_present(flags)))

\* unmap_page: [S, r], r = 0 when not mapped
unmap_page(S, vaddr) ==
    LET pd_addr == S.paging.PAGE_DIRECTORY_ADDR
        pde == Read(S, Add32(pd_addr, 4 * pd_index(vaddr)))
        pt_addr == entry_addr(pde)
        slot == Add32(pt_addr, 4 * pt_index(vaddr))
        pte == Read(S, slot)
    IN  IF pd_addr = 0 THEN [S |-> S, r |-> 0]
        ELSE IF ~entry_present(pde) THEN [S |-> S, r |-> 0]
        ELSE IF ~entry_present(pte) THEN [S |-> S, r |-> 0]
        ELSE [S |-> Write(S, slot, 0), r |-> entry_addr(pte)]

\* virt_to_phys without `+ offset`: the base of the frame for every address
virt_to_phys_frame_only(S, vaddr) ==
    LET pd_addr == S.paging.PAGE_DIRECTORY_ADDR
        pde == Read(S, Add32(pd_addr, 4 * pd_index(vaddr)))
        pte == Read(S, Add32(entry_addr(pde), 4 * pt_index(vaddr)))
    IN  IF pd_addr = 0 \/ ~entry_present(pde) \/ ~entry_present(pte)
        THEN <<FALSE, 0>>
        ELSE <<TRUE, entry_addr(pte)>>

\* virt_to_phys: Option<u32>, None as the pair <<FALSE, 0>>
virt_to_phys(S, vaddr) ==
    LET pd_addr == S.paging.PAGE_DIRECTORY_ADDR
        offset == vaddr % PAGE_SIZE
        pde == Read(S, Add32(pd_addr, 4 * pd_index(vaddr)))
        pt_addr == entry_addr(pde)
        pte == Read(S, Add32(pt_addr, 4 * pt_index(vaddr)))
    IN  IF pd_addr = 0 THEN <<FALSE, 0>>
        ELSE IF ~entry_present(pde) THEN <<FALSE, 0>>
        ELSE IF ~entry_present(pte) THEN <<FALSE, 0>>
        ELSE <<TRUE, entry_addr(pte) + offset>>

\* is_mapped
is_mapped(S, vaddr) == virt_to_phys(S, vaddr)[1]

----------------------------------------------------------------------------
(* memory/heap.rs                                                          *)

HEADER_SIZE == 8

FLAG_FREE == 1

MIN_ALLOC == 8

\* BlockHeader fields of the header at address h
block_size(S, h) == Read(S, h)

block_flags(S, h) == Read(S, Add32(h, 4))

\* BlockHeader::is_free
is_free(S, h) == block_flags(S, h) % 2 = 1

\* BlockHeader::set_free: flags |= FLAG_FREE
set_free(S, h) ==
    LET fl == block_flags(S, h)
    IN  Write(S, Add32(h, 4), IF fl % 2 = 1 THEN fl ELSE fl + 1)

\* BlockHeader::set_used: flags &= !FLAG_FREE
set_used(S, h) ==
    LET fl == block_flags(S, h)
    IN  Write(S, Add32(h, 4), IF fl % 2 = 1 THEN fl - 1 ELSE fl)

\* BlockHeader::data_ptr
data_ptr(h) == Add32(h, HEADER_SIZE)

\* BlockHeader::next
next(S, h) == Add32(h, Add32(HEADER_SIZE, block_size(S, h)))

\* the loop of kbrk: reserve_frame page by page until current_end >= new_brk
RECURSIVE kbrk_reserve(_, _, _)
kbrk_reserve(S, new_brk, current_end) ==
    IF UGt(new_brk, current_end)
    THEN kbrk_reserve(reserve_frame(S, current_end), new_brk,
                      Add32(current_end, PAGE_SIZE))
    ELSE [S |-> S, r |-> current_end]

\* kbrk
kbrk(S, increment) ==
    IF increment = 0 THEN [S |-> S, r |-> S.heap.HEAP_BRK]
    ELSE LET old_brk == S.heap.HEAP_BRK
             new_brk == Add32(old_brk, increment)
             k == kbrk_reserve(S, new_brk, S.heap.HEAP_END)
         IN  [S |-> [k.S EXCEPT !.heap.HEAP_BRK = new_brk,
                                !.heap.HEAP_END = k.r],
              r |-> old_brk]

\* heap::init
heap_init(S) ==
    LET heap_start == align_up(S.boot.kernel_end, PAGE_SIZE)
    IN  kbrk([S EXCEPT !.heap.HEAP_START = heap_start,
                       !.heap.HEAP_BRK = heap_start,
                       !.heap.HEAP_END = heap_start], PAGE_SIZE).S

\* the size kmalloc rounds a request to
kmalloc_round(size) ==
    IF ULt(size, MIN_ALLOC) THEN MIN_ALLOC ELSE align_up(size, 4)

MaxWalk == 64

\* where the walk of kmalloc leaves its loop: at or past `end`, or at a free
\* block of at least alloc_size bytes
walk_stops(S, current, end, alloc_size) ==
    \/ ~ULt(current, end)
    \/ is_free(S, current) /\ UGe(block_size(S, current), alloc_size)

\* the header the walk is at after at most n more blocks (`current =
\* block.next()`), staying where it stops; the n steps are taken in two halves,
\* which bounds the depth of evaluation
RECURSIVE walk(_, _, _, _, _)
walk(S, current, end, alloc_size, n) ==
    IF n = 0 \/ walk_stops(S, current, end, alloc_size) THEN current
    ELSE IF n = 1 THEN next(S, current)
    ELSE walk(S, walk(S, current, end, alloc_size, n \div 2), end, alloc_size,
              n - (n \div 2))

\* the first-fit walk of kmalloc: <<"fit", header>> at the first free block of
\* at least alloc_size bytes, <<"end", _>> when the walk reaches `end` without
\* one, <<"hang", _>> when it has not ended after MaxWalk blocks
find_fit(S, start, end, alloc_size) ==
    LET h == walk(S, start, end, alloc_size, MaxWalk)
    IN  IF ~ULt(h, end) THEN <<"end", h>>
        ELSE IF is_free(S, h) /\ UGe(block_size(S, h), alloc_size)
        THEN <<"fit", h>>
        ELSE <<"hang", h>>

\* kmalloc, the branch that found a free block at `current`
kmalloc_take(S, current, alloc_size) ==
    LET old_size == block_size(S, current)
        remaining == Sub32(old_size, alloc_size)
        whole == set_used(S, current)
        split == Write(
                     Write(set_used(Write(S, current, alloc_size), current),
                           Add32(current, Add32(HEADER_SIZE, alloc_size)),
                           Sub32(Sub32(old_size, alloc_size), HEADER_SIZE)),
                     Add32(Add32(current, Add32(HEADER_SIZE, alloc_size)), 4),
                     FLAG_FREE)
        T == IF UGt(remaining, HEADER_SIZE + MIN_ALLOC) THEN split ELSE whole
    IN  [S |-> [T EXCEPT !.heap.ALLOC_COUNT = Add32(@, 1)],
         r |-> data_ptr(current)]

\* kmalloc, the branch that extends the heap
kmalloc_extend(S, alloc_size) ==
    LET needed == Add32(HEADER_SIZE, alloc_size)
        k == kbrk(S, needed)
        old_brk == k.r
    IN  IF old_brk = 0 THEN [S |-> k.S, r |-> 0]
        ELSE [S |-> [Write(Write(k.S, old_brk, alloc_size),
                           Add32(old_brk, 4), 0)
                        EXCEPT !.heap.ALLOC_COUNT = Add32(@, 1)],
              r |-> data_ptr(old_brk)]

\* kmalloc; a walk that does not end is a hang (S.halted)
kmalloc(S, size) ==
    IF size = 0 THEN [S |-> S, r |-> 0]
    ELSE LET alloc_size == kmalloc_round(size)
             heap_start == S.heap.HEAP_START
             heap_brk == S.heap.HEAP_BRK
             hit == IF UGt(heap_brk, heap_start)
                    THEN find_fit(S, heap_start, heap_brk, alloc_size)
                    ELSE <<"end", heap_start>>
         IN  IF hit[1] = "hang"
             THEN [S |-> [S EXCEPT !.halted = "kmalloc: walk does not end"],
                   r |-> 0]
             ELSE IF hit[1] = "fit" THEN kmalloc_take(S, hit[2], alloc_size)
             ELSE kmalloc_extend(S, alloc_size)

\* a kfree that marks the block free without looking at its flags
kfree_unchecked(S, ptr) ==
    IF ptr = 0 THEN S
    ELSE [set_free(S, Sub32(ptr, HEADER_SIZE)) EXCEPT
             !.heap.ALLOC_COUNT = IF @ # 0 THEN Sub32(@, 1) ELSE @]

\* kfree
kfree(S, ptr) ==
    IF ptr = 0 THEN S
    ELSE LET block == Sub32(ptr, HEADER_SIZE)
         IN  IF is_free(S, block)
             THEN [S EXCEPT !.halted = "kfree: double free detected"]
             ELSE LET T == [set_free(S, block) EXCEPT
                               !.heap.ALLOC_COUNT = IF @ # 0 THEN Sub32(@, 1) ELSE @]
                      nxt == next(T, block)
                  IN  IF ULt(nxt, T.heap.HEAP_BRK) /\ is_free(T, nxt)
                      THEN Write(T, block,
                                 Add32(block_size(T, block),
                                       Add32(HEADER_SIZE, block_size(T, nxt))))
                      ELSE T

\* ksize
ksize(S, ptr) == IF ptr = 0 THEN 0 ELSE block_size(S, Sub32(ptr, HEADER_SIZE))

----------------------------------------------------------------------------
(* memory/virt.rs                                                          *)

\* 0xD0000000
VMALLOC_BASE == U32(53248, 0)

\* 256 * 1024 * 1024
VMALLOC_MAX_SIZE == 268435456

MAX_VMALLOC_ENTRIES == 256

\* VMALLOC_TABLE holds the entries in use, slot -> [vaddr, size]; every other
\* slot of the 256 is {vaddr: 0, size: 0, in_use: false}
virt_init(S) ==
    [S EXCEPT !.virt.VMALLOC_BRK = VMALLOC_BASE, !.virt.VMALLOC_COUNT = 0]

\* a rollback that unmaps the pages and keeps their frames
RECURSIVE vbrk_rollback_keeps_frames(_, _, _, _)
vbrk_rollback_keeps_frames(S, brk, rollback, page) ==
    IF rollback >= page \/ S.halted # "" THEN S
    ELSE Then(unmap_page(S, Add32(brk, Mul32(rollback, PAGE_SIZE))),
              LAMBDA u : vbrk_rollback_keeps_frames(u.S, brk, rollback + 1, page))

\* the rollback loop of vbrk over the pages rollback..page-1
RECURSIVE vbrk_rollback(_, _, _, _)
vbrk_rollback(S, brk, rollback, page) ==
    IF rollback >= page \/ S.halted # "" THEN S
    ELSE Then(unmap_page(S, Add32(brk, Mul32(rollback, PAGE_SIZE))),
              LAMBDA u :
                  Then(IF u.r # 0 THEN free_frame(u.S, u.r) ELSE u.S,
                       LAMBDA T : vbrk_rollback(T, brk, rollback + 1, page)))

\* memset(vaddr, 0, PAGE_SIZE) of a page of the vmalloc region: the CPU
\* translates vaddr through the page tables
zero_page(S, vaddr) ==
    LET phys == virt_to_phys(S, vaddr)
    IN  IF ~phys[1] THEN [S EXCEPT !.halted = "page fault"]
        ELSE WritePage(S, phys[2], ZeroWord)

\* one turn of the loop of vbrk once alloc_frame has returned `a`
RECURSIVE vbrk_pages(_, _, _, _)
vbrk_page(a, brk, page, pages_needed) ==
    LET vaddr == Add32(brk, Mul32(page, PAGE_SIZE))
    IN  IF a.r = 0
        THEN [S |-> vbrk_rollback(a.S, brk, 0, page), r |-> 0]
        ELSE Then(map_page(a.S, vaddr, a.r, PAGE_PRESENT + PAGE_WRITABLE),
                  LAMBDA m :
                      IF m.halted # "" THEN [S |-> m, r |-> 0]
                      ELSE Then(zero_page(m, vaddr),
                                LAMBDA z : vbrk_pages(z, brk, page + 1,
                                                      pages_needed)))

\* the loop of vbrk over the pages page..pages_needed-1
vbrk_pages(S, brk, page, pages_needed) ==
    IF page >= pages_needed THEN [S |-> S, r |-> brk]
    ELSE Then(alloc_frame(S),
              LAMBDA a : vbrk_page(a, brk, page, pages_needed))

\* vbrk
vbrk(S, increment) ==
    IF increment = 0 THEN [S |-> S, r |-> S.virt.VMALLOC_BRK]
    ELSE LET pages_needed == UDiv(align_up(increment, PAGE_SIZE), PAGE_SIZE)
             brk == S.virt.VMALLOC_BRK
             new_brk == Add32(brk, Mul32(pages_needed, PAGE_SIZE))
         IN  IF UGt(new_brk, Add32(VMALLOC_BASE, VMALLOC_MAX_SIZE))
             THEN [S |-> S, r |-> 0]
             ELSE Then(vbrk_pages(S, brk, 0, pages_needed),
                       LAMBDA v :
                           IF v.r = 0 \/ v.S.halted # ""
                           THEN [S |-> v.S, r |-> 0]
                           ELSE [S |-> [v.S EXCEPT !.virt.VMALLOC_BRK = new_brk],
                                 r |-> brk])

\* find_free_entry that never finds the table full: slot 0 when no slot is
\* free
find_free_entry_or_first(S) ==
    LET free == (0 .. (MAX_VMALLOC_ENTRIES - 1)) \ DOMAIN S.virt.VMALLOC_TABLE
    IN  IF free = {} THEN 0
        ELSE CHOOSE i \in free : \A j \in free : i <= j

\* find_free_entry
find_free_entry(S) ==
    LET free == (0 .. (MAX_VMALLOC_ENTRIES - 1)) \ DOMAIN S.virt.VMALLOC_TABLE
    IN  IF free = {} THEN MAX_VMALLOC_ENTRIES
        ELSE CHOOSE i \in free : \A j \in free : i <= j

\* vmalloc, once vbrk has returned `v`
vmalloc_record(S, v, entry_idx, alloc_size) ==
    IF v.r = 0 THEN [S |-> v.S, r |-> 0]
    ELSE [S |-> [v.S EXCEPT
                    !.virt.VMALLOC_TABLE =
                        (entry_idx :> [vaddr |-> v.r, size |-> alloc_size]) @@ @,
                    !.virt.VMALLOC_COUNT = Add32(@, 1)],
          r |-> v.r]

\* vmalloc
vmalloc(S, size) ==
    IF size = 0 THEN [S |-> S, r |-> 0]
    ELSE LET alloc_size == align_up(size, PAGE_SIZE)
             entry_idx == find_free_entry(S)
         IN  IF entry_idx >= MAX_VMALLOC_ENTRIES THEN [S |-> S, r |-> 0]
             ELSE Then(vbrk(S, alloc_size),
                       LAMBDA v : vmalloc_record(S, v, entry_idx, alloc_size))

\* a lookup that accepts any address inside an entry's range
find_entry_containing(S, vaddr) ==
    LET hit == {i \in DOMAIN S.virt.VMALLOC_TABLE :
                   /\ ULe(S.virt.VMALLOC_TABLE[i].vaddr, vaddr)
                   /\ ULt(Sub32(vaddr, S.virt.VMALLOC_TABLE[i].vaddr),
                          S.virt.VMALLOC_TABLE[i].size)}
    IN  IF hit = {} THEN MAX_VMALLOC_ENTRIES
        ELSE CHOOSE i \in hit : \A j \in hit : i <= j

\* the slot vfree and vsize find: the first in-use entry whose vaddr is `vaddr`
find_entry(S, vaddr) ==
    LET hit == {i \in DOMAIN S.virt.VMALLOC_TABLE :
                   S.virt.VMALLOC_TABLE[i].vaddr = vaddr}
    IN  IF hit = {} THEN MAX_VMALLOC_ENTRIES
        ELSE CHOOSE i \in hit : \A j \in hit : i <= j

\* the loop of vfree over the pages page..pages-1
RECURSIVE vfree_pages(_, _, _, _)
vfree_pages(S, vaddr, page, pages) ==
    IF page >= pages \/ S.halted # "" THEN S
    ELSE Then(unmap_page(S, Add32(vaddr, Mul32(page, PAGE_SIZE))),
              LAMBDA u :
                  Then(IF u.r # 0 THEN free_frame(u.S, u.r) ELSE u.S,
                       LAMBDA T : vfree_pages(T, vaddr, page + 1, pages)))

\* vfree, once the pages of entry i are unmapped and freed
vfree_release(T, i) ==
    IF T.halted # "" THEN T
    ELSE [T EXCEPT !.virt.VMALLOC_TABLE = [j \in DOMAIN @ \ {i} |-> @[j]],
                   !.virt.VMALLOC_COUNT = IF @ # 0 THEN Sub32(@, 1) ELSE @]

\* vfree
vfree(S, ptr) ==
    IF ptr = 0 THEN S
    ELSE LET i == find_entry(S, ptr)
         IN  IF i >= MAX_VMALLOC_ENTRIES
             THEN [S EXCEPT !.halted = "vfree: pointer not found in vmalloc table"]
             ELSE Then(vfree_pages(S, ptr, 0,
                                   UDiv(S.virt.VMALLOC_TABLE[i].size, PAGE_SIZE)),
                       LAMBDA T : vfree_release(T, i))

\* vsize
vsize(S, ptr) ==
    IF ptr = 0 THEN 0
    ELSE LET i == find_entry(S, ptr)
         IN  IF i >= MAX_VMALLOC_ENTRIES THEN 0
             ELSE S.virt.VMALLOC_TABLE[i].size

----------------------------------------------------------------------------
(* The machine: boot inputs, initial state, one action per call            *)

KERNEL_START == 1048576

\* the linker's __kernel_end: the image holds the 128 KB BITMAP in its BSS
KERNEL_END == 1314560

MmapEntry(base, len, t) ==
    [base_low |-> base, base_high |-> 0, len_low |-> len, etype |-> t]

Boot(flags, lower, upper, mmap, fill) ==
    [present |-> TRUE, flags |-> flags, mem_lower |-> lower,
     mem_upper |-> upper, mmap |-> mmap,
     kernel_start |-> KERNEL_START, kernel_end |-> KERNEL_END, fill |-> fill]

\* 640 KB + 280 KB of RAM: five frames follow the kernel image
BootSmall ==
    Boot(65, 640, 280,
         <<MmapEntry(0, 654336, 1), MmapEntry(654336, 1024, 2),
           MmapEntry(1048576, 286720, 1)>>, 0)

\* 640 KB + 3 MB of RAM, all of it usable: two page tables
BootTwoTables ==
    Boot(65, 640, 3072,
         <<MmapEntry(0, 654336, 1), MmapEntry(654336, 1024, 2),
           MmapEntry(1048576, 3145728, 1)>>, 0)

\* a hole in the map right after the kernel image: the usable RAM above 1 MB is
\* the image itself and, higher up, six more frames; the words of the hole read
\* as `fill`
BootHole(fill) ==
    Boot(65, 640, 280,
         <<MmapEntry(0, 654336, 1), MmapEntry(1048576, 266240, 1),
           MmapEntry(1314816, 8192, 2), MmapEntry(1323008, 24576, 1)>>, fill)

BootConfigs == {BootSmall, BootTwoTables, BootHole(-1)}

Cur ==
    [boot |-> boot, TOTAL_MEMORY |-> TOTAL_MEMORY, frame |-> frame,
     paging |-> paging, heap |-> heap, virt |-> virt, mem |-> mem,
     halted |-> halted]

\* the machine state after the step is T (evaluated once)
Commit(T) ==
    \E V \in {T} :
        /\ boot' = boot
        /\ TOTAL_MEMORY' = V.TOTAL_MEMORY
        /\ frame' = V.frame
        /\ paging' = V.paging
        /\ heap' = V.heap
        /\ virt' = V.virt
        /\ mem' = V.mem
        /\ halted' = V.halted
        /\ callers' = callers

Call(op, a, r) == [op |-> op, a |-> a, r |-> r]

\* the two contexts before either has called alloc_frame
NoCalls(cs) ==
    [cs |-> cs, at |-> [c \in 1 .. 2 |-> [pc |-> "out", frame |-> 0, r |-> 0]]]

\* the statics as the image is loaded (BSS zero), before memory::init; calls
\* run one at a time (cs) or not, as `modes` says
InitMode(configs, modes) ==
    /\ callers \in {NoCalls(cs) : cs \in modes}
    /\ phase = "boot"
    /\ boot \in configs
    /\ TOTAL_MEMORY = 0
    /\ frame = [BITMAP |-> {<<0, MAX_FRAMES - 1>>}, TOTAL_FRAMES |-> 0,
                USED_FRAMES |-> 0]
    /\ paging = [PAGE_DIRECTORY_ADDR |-> 0, PAGING_ENABLED |-> FALSE]
    /\ heap = [HEAP_START |-> 0, HEAP_BRK |-> 0, HEAP_END |-> 0,
               ALLOC_COUNT |-> 0]
    /\ virt = [VMALLOC_TABLE |-> [i \in {} |-> 0],
               VMALLOC_BRK |-> VMALLOC_BASE, VMALLOC_COUNT |-> 0]
    /\ mem = [x \in {} |-> 0]
    /\ halted = ""
    /\ ret = Call("none", <<>>, 0)
    /\ live = {}
    /\ owned = {}
    /\ nops = 0
    /\ used_at_init = 0
    /\ vgiven = {}

\* every call runs to its end before the next one starts
InitWith(configs) == InitMode(configs, {TRUE})

Init == InitWith(BootConfigs)

\* memory::init up to the return of frame::init
MemInitFrame ==
    /\ phase = "boot" /\ halted = ""
    /\ phase' = "frame"
    /\ Commit([Cur EXCEPT !.TOTAL_MEMORY = total_memory_of(boot),
                          !.frame = frame_init(boot, total_memory_of(boot))])
    /\ ret' = Call("frame::init", <<>>, 0)
    /\ UNCHANGED <<live, owned, nops, used_at_init, vgiven>>

\* memory::init: paging::init
MemInitPaging ==
    /\ phase = "frame" /\ halted = ""
    /\ phase' = "paging"
    /\ Commit(paging_init(Cur))
    /\ ret' = Call("paging::init", <<>>, 0)
    /\ UNCHANGED <<live, owned, nops, used_at_init, vgiven>>

\* memory::init: heap::init
MemInitHeap ==
    /\ phase = "paging" /\ halted = ""
    /\ phase' = "heap"
    /\ Commit(heap_init(Cur))
    /\ ret' = Call("heap::init", <<>>, 0)
    /\ UNCHANGED <<live, owned, nops, used_at_init, vgiven>>

\* memory::init: virt::init, after which the kernel runs
MemInitVirt ==
    /\ phase = "heap" /\ halted = ""
    /\ phase' = "run"
    /\ Commit(virt_init(Cur))
    /\ ret' = Call("virt::init", <<>>, 0)
    /\ used_at_init' = frame.USED_FRAMES
    /\ UNCHANGED <<live, owned, nops, vgiven>>

MemInit == MemInitFrame \/ MemInitPaging \/ MemInitHeap \/ MemInitVirt

Running == phase = "run" /\ halted = ""

Step == phase' = phase /\ nops' = nops + 1 /\ used_at_init' = used_at_init

\* frame::alloc_frame()
AllocFrame ==
    /\ Running /\ Step
    /\ \E a \in {alloc_frame(Cur)} :
           /\ Commit(a.S)
           /\ ret' = Call("alloc_frame", <<>>, a.r)
           /\ owned' = IF a.S.frame # frame THEN owned \cup {a.r} ELSE owned
    /\ UNCHANGED <<live, vgiven>>

\* frame::alloc_frames(count)
AllocFrames(count) ==
    /\ Running /\ Step
    /\ \E a \in {alloc_frames(Cur, count)} :
           /\ Commit(a.S)
           /\ ret' = Call("alloc_frames", <<count>>, a.r)
           /\ owned' = IF a.S.frame # frame
                       THEN owned \cup {Add32(a.r, i * PAGE_SIZE) :
                                           i \in 0 .. (count - 1)}
                       ELSE owned
    /\ UNCHANGED <<live, vgiven>>

\* frame::free_frame(addr)
FreeFrame(addr) ==
    /\ Running /\ Step
    /\ Commit(free_frame(Cur, addr))
    /\ ret' = Call("free_frame", <<addr>>, 0)
    /\ owned' = owned \ {addr}
    /\ UNCHANGED <<live, vgiven>>

\* frame::free_frames(addr, count)
FreeFrames(addr, count) ==
    /\ Running /\ Step
    /\ Commit(free_frames(Cur, addr, count))
    /\ ret' = Call("free_frames", <<addr, count>>, 0)
    /\ owned' = owned \ {Add32(align_down(addr, PAGE_SIZE), i * PAGE_SIZE) :
                            i \in 0 .. (count - 1)}
    /\ UNCHANGED <<live, vgiven>>

\* frame::reserve_frame(addr)
ReserveFrame(addr) ==
    /\ Running /\ Step
    /\ Commit(reserve_frame(Cur, addr))
    /\ ret' = Call("reserve_frame", <<addr>>, 0)
    /\ UNCHANGED <<live, owned, vgiven>>

\* paging::map_page(vaddr, paddr, flags)
MapPage(vaddr, paddr, flags) ==
    /\ Running /\ Step
    /\ Commit(map_page(Cur, vaddr, paddr, flags))
    /\ ret' = Call("map_page", <<vaddr, paddr, flags>>, 0)
    /\ UNCHANGED <<live, owned, vgiven>>

\* paging::unmap_page(vaddr)
UnmapPage(vaddr) ==
    /\ Running /\ Step
    /\ \E u \in {unmap_page(Cur, vaddr)} :
           /\ Commit(u.S)
           /\ ret' = Call("unmap_page", <<vaddr>>, u.r)
    /\ UNCHANGED <<live, owned, vgiven>>

\* heap::kbrk(increment)
Kbrk(increment) ==
    /\ Running /\ Step
    /\ \E k \in {kbrk(Cur, increment)} :
           /\ Commit(k.S)
           /\ ret' = Call("kbrk", <<increment>>, k.r)
    /\ UNCHANGED <<live, owned, vgiven>>

\* heap::kmalloc(size)
Kmalloc(size) ==
    /\ Running /\ Step
    /\ \E k \in {kmalloc(Cur, size)} :
           /\ Commit(k.S)
           /\ ret' = Call("kmalloc", <<size>>, k.r)
           /\ live' = IF k.r # 0 THEN live \cup {k.r} ELSE live
    /\ UNCHANGED <<owned, vgiven>>

\* heap::kfree(ptr)
Kfree(ptr) ==
    /\ Running /\ Step
    /\ Commit(kfree(Cur, ptr))
    /\ ret' = Call("kfree", <<ptr>>, 0)
    /\ live' = live \ {ptr}
    /\ UNCHANGED <<owned, vgiven>>

\* virt::vmalloc(size)
Vmalloc(size) ==
    /\ Running /\ Step
    /\ \E v \in {vmalloc(Cur, size)} :
           /\ Commit(v.S)
           /\ ret' = Call("vmalloc", <<size>>, v.r)
           /\ vgiven' = IF v.r # 0
                        THEN vgiven \cup {[vaddr |-> v.r,
                                           size |-> align_up(size, PAGE_SIZE)]}
                        ELSE vgiven
    /\ UNCHANGED <<live, owned>>

\* virt::vfree(ptr)
Vfree(ptr) ==
    /\ Running /\ Step
    /\ Commit(vfree(Cur, ptr))
    /\ ret' = Call("vfree", <<ptr>>, 0)
    /\ UNCHANGED <<live, owned, vgiven>>

\* virt::vsize(ptr)
Vsize(ptr) ==
    /\ Running /\ Step
    /\ Commit(Cur)
    /\ ret' = Call("vsize", <<ptr>>, vsize(Cur, ptr))
    /\ UNCHANGED <<live, owned, vgiven>>

\* heap::ksize(ptr)
Ksize(ptr) ==
    /\ Running /\ Step
    /\ Commit(Cur)
    /\ ret' = Call("ksize", <<ptr>>, ksize(Cur, ptr))
    /\ UNCHANGED <<live, owned, vgiven>>

----------------------------------------------------------------------------
(* memory::init over the boot information a loader can hand over           *)

\* no Multiboot magic in EAX: memory::init is called with address 0
NoMultiboot ==
    [present |-> FALSE, flags |-> 0, mem_lower |-> 0, mem_upper |-> 0,
     mmap |-> <<>>, kernel_start |-> KERNEL_START, kernel_end |-> KERNEL_END,
     fill |-> 0]

\* an image that ends at 2 MB: kernel frames 256..511
KERNEL_END_2MB == 2097152

\* 128 MB of RAM reported as one usable region, kernel frames 256..511
Boot128 ==
    [Boot(65, 640, 129408, <<MmapEntry(0, 134217728, 1)>>, 0)
        EXCEPT !.kernel_end = KERNEL_END_2MB]

\* the memory maps tried: the three of BootConfigs, one region of 128 MB, an
\* empty map, regions that begin and end inside frames, and a usable region in
\* the last page of the address space next to an entry above 4 GB
BootMmaps ==
    {BootSmall.mmap, BootTwoTables.mmap, BootHole(0).mmap, Boot128.mmap,
     <<>>,
     <<MmapEntry(6144, 1024, 1), MmapEntry(1050624, 286720, 1),
       MmapEntry(1337344, 2048, 1), MmapEntry(1339392, 2048, 1)>>,
     <<MmapEntry(0, 654336, 1),
       [base_low |-> 0, base_high |-> 1, len_low |-> 1048576, etype |-> 1],
       MmapEntry(U32(65535, 63488), 1024, 1)>>}

BootInputs ==
    BootConfigs \cup {NoMultiboot, Boot128} \cup
    {[Boot(fl, 640, up, mm, 0) EXCEPT !.kernel_end = ke] :
        fl \in {1, 65}, up \in {280, 3072}, mm \in BootMmaps,
        ke \in {KERNEL_END, KERNEL_END_2MB}} \cup
    {Boot(fl, 640, 280, BootSmall.mmap, 0) : fl \in {0, 64}}

InitBoot == InitWith(BootInputs)

SpecBoot == InitBoot /\ [][MemInit]_vars

----------------------------------------------------------------------------
(* frame::init                                                             *)

\* frame f lies wholly inside the region (base, length)
CoveredBy(f, region) ==
    LET fa == Mul32(f, PAGE_SIZE)
        off == Sub32(fa, region[1])
    IN  /\ ULe(region[1], fa)
        /\ ULe(off, region[2])
        /\ UGe(Sub32(region[2], off), PAGE_SIZE)

\* frame f is covered by a region the enumerator reports
Usable(f) ==
    \E i \in DOMAIN walk_memory_map(boot) :
        CoveredBy(f, walk_memory_map(boot)[i])

\* frame f holds bytes of the kernel image
InKernel(f) ==
    /\ f * PAGE_SIZE < boot.kernel_end
    /\ (f + 1) * PAGE_SIZE > boot.kernel_start

\* C7: after frame init every frame below 1 MiB and every frame of the kernel
\* footprint is used, and every other frame below TOTAL_FRAMES is free exactly
\* when a usable region of the enumerator covers it.
C7_InitClassifiesFrames ==
    phase = "frame" =>
        \A f \in 0 .. (frame.TOTAL_FRAMES - 1) :
            is_frame_used(Cur, f * PAGE_SIZE)
                = (f < LOW_END_FRAME \/ InKernel(f) \/ ~Usable(f))

\* the set bits among the frames 0..TOTAL_FRAMES-1, counted one by one
SetBitsBelowTotal ==
    Cardinality({f \in 0 .. (frame.TOTAL_FRAMES - 1) : bitmap_test(frame, f)})

\* C8: after init USED_FRAMES is the number of set bits among the frames below
\* TOTAL_FRAMES and the free count is TOTAL_FRAMES - USED_FRAMES; with 128 MiB,
\* one usable region (0, 128 MiB) and kernel frames 256..511 that is 512 used
\* and 32256 free.
C8_InitCounts ==
    phase = "frame" =>
        /\ frame.USED_FRAMES = SetBitsBelowTotal
        /\ free_frames_count(Cur) = frame.TOTAL_FRAMES - frame.USED_FRAMES
        /\ boot = Boot128 =>
              /\ frame.TOTAL_FRAMES = 32768
              /\ frame.USED_FRAMES = 512
              /\ free_frames_count(Cur) = 32256

C8_Witness ==
    /\ phase = "frame"
    /\ boot = Boot128
    /\ frame.USED_FRAMES = 512
    /\ ~is_frame_used(Cur, 512 * PAGE_SIZE)
    /\ is_frame_used(Cur, 511 * PAGE_SIZE)

----------------------------------------------------------------------------
(* the frame allocator in use                                              *)

\* the address of frame f
FrameAddr(f) == Mul32(f, PAGE_SIZE)

\* the frames the kernel never hands out: low memory and the image
Protected(f) == f < LOW_END_FRAME \/ InKernel(f)

\* calls made per behaviour once memory::init has returned
MaxOwnerOps == 6

\* a caller that frees only what alloc_frame gave it
NextOwner ==
    \/ MemInit
    \/ nops < MaxOwnerOps /\ AllocFrame
    \/ nops < MaxOwnerOps /\ \E a \in owned : FreeFrame(a)

SpecOwner == Init /\ [][NextOwner]_vars

\* C4: while only alloc_frame and free_frame of frames it returned are called,
\* USED_FRAMES is its value when init returned plus the number of frames
\* handed out and not yet freed, and is the number of set bits among the
\* frames below TOTAL_FRAMES.
C4_UsedCount ==
    phase = "run" =>
        /\ frame.USED_FRAMES = used_at_init + Cardinality(owned)
        /\ frame.USED_FRAMES = SetBitsBelowTotal

C4_Witness ==
    /\ phase = "run"
    /\ ret.op = "free_frame"
    /\ Cardinality(owned) >= 2
    /\ halted = ""

\* addresses handed to the frame calls: frame 0, a low frame, the first frame
\* of the image, the frames that follow the page tables, an address inside a
\* frame, and a frame past TOTAL_FRAMES
FrameArgs ==
    {0, PAGE_SIZE, KERNEL_START, FrameAddr(323), FrameAddr(324),
     FrameAddr(325), FrameAddr(325) + 4, FrameAddr(2000)}

CountArgs == 0 .. 3

MaxFrameOps == 3

NextFrame ==
    \/ MemInit
    \/ nops < MaxFrameOps /\ AllocFrame
    \/ nops < MaxFrameOps /\ \E n \in CountArgs : AllocFrames(n)
    \/ nops < MaxFrameOps /\ \E a \in FrameArgs : FreeFrame(a)
    \/ nops < MaxFrameOps /\ \E a \in {0, FrameAddr(324)} : FreeFrames(a, 2)
    \/ nops < MaxFrameOps /\ \E a \in FrameArgs : ReserveFrame(a)

SpecFrame == Init /\ [][NextFrame]_vars

\* C5: when alloc_frames(n) succeeds with base b, every frame of b..b+n-1 was
\* free at the call and lies below TOTAL_FRAMES; after it all n are used and
\* USED_FRAMES has grown by exactly n.
C5_AllocFramesSuccess ==
    [][(ret'.op = "alloc_frames" /\ ret'.r # 0) =>
          LET n == ret'.a[1]
              b == UDiv(ret'.r, PAGE_SIZE)
          IN  /\ \A i \in 0 .. (n - 1) :
                    /\ ~bitmap_test(frame, b + i)
                    /\ b + i < frame.TOTAL_FRAMES
                    /\ bitmap_test(frame', b + i)
              /\ frame'.USED_FRAMES = frame.USED_FRAMES + n]_vars

C5_Witness ==
    /\ ret.op = "alloc_frames"
    /\ ret.r # 0
    /\ ret.a[1] = 3
    /\ owned # {}

\* the bit vector holds n consecutive free frames below TOTAL_FRAMES
RunExists(F, n) ==
    \E b \in 0 .. (F.TOTAL_FRAMES - n) :
        \A i \in 0 .. (n - 1) : ~bitmap_test(F, b + i)

\* C6: alloc_frames(count) fails only when no run of count consecutive free
\* frames exists below TOTAL_FRAMES, and a failed call leaves BITMAP and
\* USED_FRAMES as they were.
C6_AllocFramesFailure ==
    [][(ret'.op = "alloc_frames" /\ ret'.a[1] >= 1 /\ ret'.r = 0) =>
          /\ ~RunExists(frame, ret'.a[1])
          /\ frame' = frame]_vars

\* C9: after init every frame below 1 MiB and every frame of the kernel image
\* stays used, whatever frame calls are made.
C9_ProtectedStayUsed ==
    phase = "run" =>
        \A f \in 0 .. (frame.TOTAL_FRAMES - 1) :
            Protected(f) => is_frame_used(Cur, FrameAddr(f))

----------------------------------------------------------------------------
(* the page tables in use                                                  *)

\* virtual pages mapped and unmapped: the base of the vmalloc region (no page
\* table at init), a page of the identity map, and the last page of the
\* address space
PageArgs == {VMALLOC_BASE, PAGE_SIZE, U32(65535, 61440)}

\* physical addresses mapped: frame 0, a frame after the image, and an
\* address inside that frame (map_page takes any u32)
PhysArgs == {0, FrameAddr(325), FrameAddr(325) + 2052}

\* flags: none, and present + writable + user
FlagArgs == {0, PAGE_PRESENT + PAGE_WRITABLE + PAGE_USER}

MaxPagingOps == 2

NextPaging ==
    \/ MemInit
    \/ nops < MaxPagingOps /\ \E v \in PageArgs, p \in PhysArgs, fl \in FlagArgs :
                                  MapPage(v, p, fl)
    \/ nops < MaxPagingOps /\ \E v \in PageArgs : UnmapPage(v)

SpecPaging == Init /\ [][NextPaging]_vars

\* the round trip of map_page(v, p, flags): virt_to_phys(v + k) is p + k for
\* every k of 0..4095, unmap_page(v) returns p, and after that virt_to_phys(v)
\* finds no mapping
RoundTrip(S, v, p) ==
    LET u == unmap_page(S, v)
    IN  /\ \A k \in 0 .. (PAGE_SIZE - 1) :
              virt_to_phys(S, Add32(v, k)) = <<TRUE, Add32(p, k)>>
        /\ u.r = p
        /\ ~virt_to_phys(u.S, v)[1]
        /\ ~is_mapped(u.S, v)

\* C10 as stated: right after map_page(v, p, flags) returns, for every
\* virtual page v, every physical address p and every flags, the round trip
\* gives back p.
C10_MapRoundTripAnyAddress ==
    (ret.op = "map_page" /\ halted = "") => RoundTrip(Cur, ret.a[1], ret.a[2])

\* C10: right after map_page(v, p, flags) returns, for every virtual page v,
\* every page-aligned physical address p and every flags, virt_to_phys(v + k)
\* is p + k for every k of 0..4095, unmap_page(v) returns p, and after that
\* virt_to_phys(v) finds no mapping.  For any p at all the round trip gives
\* back the frame of p, align_down(p, PAGE_SIZE): make_pte keeps the top 20
\* bits of the address only.
C10_MapRoundTrip ==
    (ret.op = "map_page" /\ halted = "") =>
        RoundTrip(Cur, ret.a[1], align_down(ret.a[2], PAGE_SIZE))

C10_Witness ==
    /\ ret.op = "map_page"
    /\ halted = ""
    /\ ret.a[1] = VMALLOC_BASE
    /\ ret.a[2] = FrameAddr(325)
    /\ frame.USED_FRAMES = used_at_init + 1

----------------------------------------------------------------------------
(* the kernel heap in use                                                  *)

\* sizes asked of kmalloc: the minimum, a few words, more than a page
SizeArgs == {MIN_ALLOC, 24, 5000}

MaxHeapOps == 3

NextHeap ==
    \/ MemInit
    \/ nops < MaxHeapOps /\ \E sz \in SizeArgs : Kmalloc(sz)
    \/ nops < MaxHeapOps /\ \E p \in live : Kfree(p)

SpecHeap == Init /\ [][NextHeap]_vars

\* the bytes of the live allocation at p: ptr .. ptr + ksize(ptr) - 1
InsideArena(p) ==
    /\ ULe(heap.HEAP_START, p)
    /\ ULe(p, heap.HEAP_BRK)
    /\ ULe(ksize(Cur, p), Sub32(heap.HEAP_BRK, p))

Disjoint(p, q) ==
    IF ULt(p, q) THEN ULe(ksize(Cur, p), Sub32(q, p))
    ELSE ULe(ksize(Cur, q), Sub32(p, q))

\* C1: after heap init and any kmalloc/kfree calls, the ranges
\* [ptr, ptr + ksize(ptr)) of the pointers kmalloc returned and kfree has not
\* taken back are pairwise disjoint and lie inside [HEAP_START, HEAP_BRK).
C1_LiveRangesDisjoint ==
    (phase = "run" /\ halted = "") =>
        /\ \A p \in live : InsideArena(p)
        /\ \A p, q \in live : p # q => Disjoint(p, q)

----------------------------------------------------------------------------
(* all four services in use                                                *)

\* the bases vmalloc has recorded in VMALLOC_TABLE
VmallocBases == {virt.VMALLOC_TABLE[i].vaddr : i \in DOMAIN virt.VMALLOC_TABLE}

MaxOps == 3

Next ==
    \/ MemInit
    \/ nops < MaxOps /\ AllocFrame
    \/ nops < MaxOps /\ AllocFrames(2)
    \/ nops < MaxOps /\ \E a \in owned : FreeFrame(a)
    \/ nops < MaxOps /\ \E a \in owned : FreeFrames(a, 2)
    \/ nops < MaxOps /\ ReserveFrame(FrameAddr(325))
    \/ nops < MaxOps /\ \E v \in PageArgs : MapPage(v, FrameAddr(325),
                                                    PAGE_PRESENT + PAGE_WRITABLE)
    \/ nops < MaxOps /\ \E v \in PageArgs : UnmapPage(v)
    \/ nops < MaxOps /\ \E n \in {2 * HEADER_SIZE, PAGE_SIZE} : Kbrk(n)
    \/ nops < MaxOps /\ \E sz \in SizeArgs : Kmalloc(sz)
    \/ nops < MaxOps /\ \E p \in live : Kfree(p)
    \/ nops < MaxOps /\ \E sz \in {1, PAGE_SIZE + 1} : Vmalloc(sz)
    \/ nops < MaxOps /\ \E p \in VmallocBases : Vfree(p)

Spec == Init /\ [][Next]_vars

\* the frames of [HEAP_START, HEAP_END)
HeapFrames ==
    {f \in frame_of(heap.HEAP_START) .. frame_of(heap.HEAP_END) :
        ULt(FrameAddr(f), heap.HEAP_END)}

\* the frames the page directory names as page tables
PageTableFrames ==
    {frame_of(entry_addr(Read(Cur, Add32(paging.PAGE_DIRECTORY_ADDR, 4 * i)))) :
        i \in {j \in 0 .. (ENTRIES_PER_TABLE - 1) :
                  entry_present(Read(Cur, Add32(paging.PAGE_DIRECTORY_ADDR,
                                                4 * j)))}}

\* C2: no frame of [HEAP_START, HEAP_END) is the page directory, an installed
\* page table, or a frame alloc_frame/alloc_frames handed out and nobody freed.
C2_HeapFramesExclusive ==
    (phase \in {"heap", "run"} /\ halted = "") =>
        \A f \in HeapFrames :
            /\ f # frame_of(paging.PAGE_DIRECTORY_ADDR)
            /\ f \notin PageTableFrames
            /\ FrameAddr(f) \notin owned

\* the address the chain of headers from `h` reaches first at or past `brk`,
\* following at most n links
RECURSIVE chain_end(_, _, _)
chain_end(h, brk, n) ==
    IF n = 0 \/ UGe(h, brk) THEN h
    ELSE chain_end(next(Cur, h), brk, n - 1)

\* C3: starting at HEAP_START and adding HEADER_SIZE + size again and again,
\* the walk over the block headers ends exactly at HEAP_BRK.
C3_ChainEndsAtBreak ==
    (phase \in {"heap", "run"} /\ halted = "") =>
        chain_end(heap.HEAP_START, heap.HEAP_BRK, MaxWalk) = heap.HEAP_BRK

----------------------------------------------------------------------------
(* vmalloc in use                                                          *)

\* virt::vbrk(increment)
Vbrk(increment) ==
    /\ Running /\ Step
    /\ \E v \in {vbrk(Cur, increment)} :
           /\ Commit(v.S)
           /\ ret' = Call("vbrk", <<increment>>, v.r)
    /\ UNCHANGED <<live, owned, vgiven>>

\* machines with few frames left when memory::init returns: three (BootSmall)
\* and four (BootHole)
VirtConfigs == {BootSmall, BootHole(-1)}

InitVirt == InitWith(VirtConfigs)

\* sizes asked of vmalloc: none, one byte, a byte more than a page, three
\* pages, and the largest u32
VSizeArgs == {0, 1, PAGE_SIZE + 1, 3 * PAGE_SIZE, U32(65535, 65535)}

\* increments asked of vbrk: none, a page, 0x30000000 (which added to
\* VMALLOC_BASE is 2^32), and the largest u32
VbrkArgs == {0, PAGE_SIZE, U32(12288, 0), U32(65535, 65535)}

\* pointers handed to vfree: null, the base of the region, an address inside
\* its first page, its second page, and every base in the table
VfreeArgs ==
    {0, VMALLOC_BASE, VMALLOC_BASE + 4, VMALLOC_BASE + PAGE_SIZE} \cup VmallocBases

MaxVirtOps == 3

NextVirt ==
    \/ MemInit
    \/ nops < MaxVirtOps /\ \E sz \in VSizeArgs : Vmalloc(sz)
    \/ nops < MaxVirtOps /\ \E p \in VfreeArgs : Vfree(p)
    \/ nops < MaxVirtOps /\ \E n \in VbrkArgs : Vbrk(n)
    \/ nops < MaxVirtOps /\ AllocFrame

SpecVirt == InitVirt /\ [][NextVirt]_vars

\* the end of the vmalloc region, VMALLOC_BASE + VMALLOC_MAX_SIZE
VmallocCeiling == Add32(VMALLOC_BASE, VMALLOC_MAX_SIZE)

\* entries i and j of the table do not overlap and have different bases
EntriesApart(i, j) ==
    LET a == virt.VMALLOC_TABLE[i]
        b == virt.VMALLOC_TABLE[j]
    IN  /\ a.vaddr # b.vaddr
        /\ IF ULt(a.vaddr, b.vaddr)
           THEN ULe(a.size, Sub32(b.vaddr, a.vaddr))
           ELSE ULe(b.size, Sub32(a.vaddr, b.vaddr))

\* C11: the active entries of VMALLOC_TABLE have pairwise non-overlapping
\* ranges and different bases, every base is page-aligned and inside the
\* vmalloc region, and every size is a non-zero multiple of PAGE_SIZE.
C11_ActiveEntries ==
    /\ \A i \in DOMAIN virt.VMALLOC_TABLE :
           LET e == virt.VMALLOC_TABLE[i]
           IN  /\ e.vaddr % PAGE_SIZE = 0
               /\ UGe(e.vaddr, VMALLOC_BASE)
               /\ ULt(e.vaddr, VmallocCeiling)
               /\ e.size # 0
               /\ e.size % PAGE_SIZE = 0
    /\ \A i, j \in DOMAIN virt.VMALLOC_TABLE : i # j => EntriesApart(i, j)

\* the step is a call of `op` that returned
Called(op) == nops' = nops + 1 /\ ret'.op = op

\* C12: VMALLOC_BRK never decreases, and a successful vmalloc returns a base
\* that no earlier vmalloc returned, at or above base + size of every earlier
\* allocation.
C12_CursorMonotonic ==
    [][/\ UGe(virt'.VMALLOC_BRK, virt.VMALLOC_BRK)
       /\ (Called("vmalloc") /\ ret'.r # 0) =>
              \A g \in vgiven :
                  /\ ret'.r # g.vaddr
                  /\ UGe(ret'.r, g.vaddr)
                  /\ ULe(g.size, Sub32(ret'.r, g.vaddr))]_vars

\* the increment vbrk is called with in the call c: its own argument, or the
\* rounded size vmalloc passes on
VbrkIncrement(c) ==
    IF c.op = "vmalloc" THEN align_up(c.a[1], PAGE_SIZE) ELSE c.a[1]

\* the pages vbrk computes for the increment
PagesNeeded(inc) == UDiv(align_up(inc, PAGE_SIZE), PAGE_SIZE)

\* the call c, made in the current state, reaches the loop of vbrk
EntersLoop(c) ==
    /\ c.op \in {"vbrk", "vmalloc"}
    /\ VbrkIncrement(c) # 0
    /\ c.op = "vmalloc" => (c.a[1] # 0 /\ find_free_entry(Cur) < MAX_VMALLOC_ENTRIES)
    /\ ~UGt(Add32(virt.VMALLOC_BRK,
                  Mul32(PagesNeeded(VbrkIncrement(c)), PAGE_SIZE)),
            VmallocCeiling)

\* the frames whose bit is 0
FreeFrameSet == UNION {iv[1] .. iv[2] : iv \in frame.BITMAP}

\* the smaller of two naturals
Min(a, b) == IF a < b THEN a ELSE b

\* C13: when a frame allocation for a page fails inside vbrk, the call returns
\* 0 with VMALLOC_BRK and the table unchanged, none of the pages it had mapped
\* is still mapped, and every frame it had taken for a page is free again: the
\* only frames it keeps are page tables map_page installed.
C13_VbrkRollsBack ==
    [][(nops' = nops + 1 /\ EntersLoop(ret') /\ ret'.r = 0 /\ halted' = "") =>
          /\ virt' = virt
          /\ \A i \in 0 .. Min(PagesNeeded(VbrkIncrement(ret')),
                               Cardinality(FreeFrameSet)) :
                 LET v == Add32(virt.VMALLOC_BRK, Mul32(i, PAGE_SIZE))
                 IN  is_mapped(Cur, v) \/ ~is_mapped(Cur', v)
          /\ \A f \in FreeFrameSet :
                 bitmap_test(frame', f) => f \in PageTableFrames'
          /\ frame'.USED_FRAMES =
                 frame.USED_FRAMES +
                 Cardinality(PageTableFrames' \ PageTableFrames)]_vars

C13_Witness ==
    /\ ret.op = "vmalloc"
    /\ ret.a[1] = 3 * PAGE_SIZE
    /\ ret.r = 0
    /\ halted = ""
    /\ owned = {}
    /\ is_mapped(Cur, VMALLOC_BASE) = FALSE
    /\ frame_of(entry_addr(Read(Cur, Add32(paging.PAGE_DIRECTORY_ADDR,
                                           4 * pd_index(VMALLOC_BASE)))))
           \in PageTableFrames
    /\ entry_present(Read(Cur, Add32(paging.PAGE_DIRECTORY_ADDR,
                                     4 * pd_index(VMALLOC_BASE))))
    /\ frame.USED_FRAMES = used_at_init + 1

\* C14: a vmalloc or vbrk call that finds no frame returns 0 and never halts
\* the kernel.
C14_ExhaustionIsReported ==
    [][(Called("vmalloc") \/ Called("vbrk")) => halted' = ""]_vars

\* the page number of an address, and the pages an increment rounds up to,
\* as integers
PageNo(a) == UDiv(a, PAGE_SIZE)

CeilPages(inc) == UDiv(inc, PAGE_SIZE) + (IF inc % PAGE_SIZE = 0 THEN 0 ELSE 1)

\* C15: for every increment, when VMALLOC_BRK plus the increment rounded up to
\* pages (as integers, not modulo 2^32) is above VMALLOC_BASE +
\* VMALLOC_MAX_SIZE, vbrk returns 0 and changes nothing; VMALLOC_BRK stays
\* within [VMALLOC_BASE, VMALLOC_BASE + VMALLOC_MAX_SIZE], and vbrk maps no
\* page at or past the end of the region.
C15_VbrkCeiling ==
    [][/\ (Called("vbrk") /\ PageNo(virt.VMALLOC_BRK) + CeilPages(ret'.a[1])
                                > PageNo(VmallocCeiling)) =>
              /\ ret'.r = 0
              /\ UNCHANGED <<frame, paging, virt, mem, halted>>
       /\ UGe(virt'.VMALLOC_BRK, VMALLOC_BASE)
       /\ ULe(virt'.VMALLOC_BRK, VmallocCeiling)
       /\ Called("vbrk") =>
              (is_mapped(Cur', VmallocCeiling) => is_mapped(Cur, VmallocCeiling))]_vars

\* what a vfree that finds no entry must do: halt, and leave the page tables,
\* the frames and the table as they were
VfreeRefused ==
    /\ halted' = "vfree: pointer not found in vmalloc table"
    /\ UNCHANGED <<frame, paging, virt, mem>>

\* C19 as stated: vfree(ptr) halts for every ptr that is not the base of an
\* active entry, and then unmaps no page and frees no frame.
C19_VfreeAnyPointer ==
    [][(Called("vfree") /\ ret'.a[1] \notin VmallocBases) => VfreeRefused]_vars

\* C19: vfree(ptr) halts for every non-null ptr that is not the base of an
\* active entry (inside an active region, freed before, never returned), and
\* then unmaps no page and frees no frame; vfree(null) returns and changes
\* nothing.
C19_VfreeUnknownPointer ==
    [][/\ (Called("vfree") /\ ret'.a[1] # 0 /\ ret'.a[1] \notin VmallocBases) =>
              VfreeRefused
       /\ (Called("vfree") /\ ret'.a[1] = 0) =>
              UNCHANGED <<frame, paging, virt, mem, halted>>]_vars

C19_Witness ==
    /\ ret.op = "vfree"
    /\ ret.a[1] = VMALLOC_BASE + 4
    /\ halted = "vfree: pointer not found in vmalloc table"
    /\ VMALLOC_BASE \in VmallocBases
    /\ is_mapped(Cur, VMALLOC_BASE)

\* the entries of the table whose base is ptr
EntriesAt(ptr) ==
    {i \in DOMAIN virt.VMALLOC_TABLE : virt.VMALLOC_TABLE[i].vaddr = ptr}

\* C20: after vfree(ptr) on the base of an active entry of n pages, none of
\* the n pages is mapped, every frame that backed one is free, USED_FRAMES is
\* n lower, the entry is gone from the table and vsize(ptr) is 0.
C20_VfreeReleases ==
    [][(Called("vfree") /\ ret'.a[1] # 0) =>
          \A i \in EntriesAt(ret'.a[1]) :
              LET ptr == ret'.a[1]
                  n == UDiv(virt.VMALLOC_TABLE[i].size, PAGE_SIZE)
              IN  /\ \A k \in 0 .. (n - 1) :
                         LET v == Add32(ptr, Mul32(k, PAGE_SIZE))
                         IN  /\ ~is_mapped(Cur', v)
                             /\ ~virt_to_phys(Cur', v)[1]
                             /\ ~bitmap_test(frame',
                                             frame_of(virt_to_phys(Cur, v)[2]))
                  /\ frame'.USED_FRAMES = frame.USED_FRAMES - n
                  /\ i \notin DOMAIN virt'.VMALLOC_TABLE
                  /\ vsize(Cur', ptr) = 0]_vars

----------------------------------------------------------------------------
(* kmalloc and kfree in sequence                                           *)

\* kmalloc(s) made right after kfree(ptr), from the state S
FreeThenAlloc(S, ptr, s) == Then(kfree(S, ptr), LAMBDA T : kmalloc(T, s))

\* C16: when kmalloc(s) has just returned ptr, kfree(ptr) followed by
\* kmalloc(s) returns ptr again.
C16_BlockReuse ==
    (ret.op = "kmalloc" /\ ret.r # 0 /\ halted = "") =>
        FreeThenAlloc(Cur, ret.r, ret.a[1]).r = ret.r

\* a caller that frees what kmalloc gave it and may free it a second time
NextHeapFree ==
    \/ MemInit
    \/ nops < MaxHeapOps /\ \E sz \in SizeArgs : Kmalloc(sz)
    \/ nops < MaxHeapOps /\ \E p \in live : Kfree(p)
    \/ nops < MaxHeapOps /\ ret.op = "kfree" /\ Kfree(ret.a[1])

SpecHeapFree == Init /\ [][NextHeapFree]_vars

\* C17: kfree(ptr) of a block whose header is marked free halts the kernel and
\* changes neither the heap statics nor memory; kfree(ptr) right after
\* kfree(ptr) always halts.
C17_DoubleFreeHalts ==
    [][/\ (Called("kfree") /\ ret'.a[1] # 0
              /\ is_free(Cur, Sub32(ret'.a[1], HEADER_SIZE))) =>
              /\ halted' = "kfree: double free detected"
              /\ heap' = heap
              /\ mem' = mem
       /\ (Called("kfree") /\ ret.op = "kfree" /\ ret'.a[1] = ret.a[1]) =>
              halted' = "kfree: double free detected"]_vars

C17_Witness ==
    /\ ret.op = "kfree"
    /\ halted = "kfree: double free detected"
    /\ ret.a[1] # 0
    /\ ret.a[1] \notin live
    /\ is_free(Cur, Sub32(ret.a[1], HEADER_SIZE))

----------------------------------------------------------------------------
(* free_frame over every state of the bit vector                           *)

\* frames freed by one free_frames call, and calls made per behaviour
FreeChunk == 100

MaxFreeOps == 6

\* addresses handed to free_frame: a frame that is free when init returns, an
\* address inside a frame, and a frame past TOTAL_FRAMES and past the runs
\* free_frames is given
FreeArgs == {FrameAddr(325), FrameAddr(325) + 4, FrameAddr(2600)}

\* a caller that frees frames it was never given: runs of frames past
\* TOTAL_FRAMES, whose bits memory::init left set, the frames of FreeArgs, and
\* two frames from the last one BITMAP has a bit for
NextFree ==
    \/ MemInit
    \/ nops < MaxFreeOps /\ \E k \in 0 .. 4 :
                                FreeFrames(FrameAddr(2000 + 100 * k), FreeChunk)
    \/ nops < MaxFreeOps /\ \E a \in FreeArgs : FreeFrame(a)
    \/ nops < MaxFreeOps /\ FreeFrames(U32(65535, 61440), 2)

SpecFree == InitVirt /\ [][NextFree]_vars

\* C18: free_frame(addr) halts, with BITMAP and USED_FRAMES unchanged, when
\* addr is not a multiple of PAGE_SIZE or the frame's bit is clear; otherwise
\* it clears that frame's bit and no other and takes exactly one off
\* USED_FRAMES.
C18_FreeFrame ==
    [][Called("free_frame") =>
          LET addr == ret'.a[1]
              f == UDiv(addr, PAGE_SIZE)
          IN  IF addr % PAGE_SIZE # 0 \/ ~bitmap_test(frame, f)
              THEN halted' # "" /\ frame' = frame
              ELSE /\ halted' = ""
                   /\ FreeFrameSet' = FreeFrameSet \cup {f}
                   /\ frame'.TOTAL_FRAMES = frame.TOTAL_FRAMES
                   /\ frame'.USED_FRAMES = frame.USED_FRAMES - 1]_vars

----------------------------------------------------------------------------
(* the identity map paging::init builds                                    *)

\* the directory entry and the table entry that translate vaddr
pde_of(S, vaddr) ==
    Read(S, Add32(S.paging.PAGE_DIRECTORY_ADDR, 4 * pd_index(vaddr)))

pte_of(S, vaddr) ==
    Read(S, Add32(entry_addr(pde_of(S, vaddr)), 4 * pt_index(vaddr)))

entry_writable(entry) == (entry \div PAGE_WRITABLE) % 2 = 1

\* a translates to itself through a present, writable directory entry and a
\* present, writable table entry
IdentityMapped(S, a) ==
    /\ virt_to_phys(S, a) = <<TRUE, a>>
    /\ entry_writable(pde_of(S, a))
    /\ entry_writable(pte_of(S, a))

\* the offsets inside a frame that are tried
OffsetArgs == {0, 1028, PAGE_SIZE - 1}

\* the frames that hold an address below TOTAL_MEMORY
MemoryFrames == 0 .. (UDiv(Add32(TOTAL_MEMORY, PAGE_SIZE - 1), PAGE_SIZE) - 1)

----------------------------------------------------------------------------
(* the directory and the tables under map_page, unmap_page, vmalloc, vfree *)

\* physical addresses handed to map_page: a frame after the image and the
\* frame of the first page table
TablePhysArgs == {FrameAddr(325), FrameAddr(322)}

\* sizes handed to vmalloc: one page, two pages
TableSizeArgs == {1, PAGE_SIZE + 1}

MaxTableOps == 3

NextTables ==
    \/ MemInit
    \/ nops < MaxTableOps /\ \E v \in PageArgs, p \in TablePhysArgs :
                                 MapPage(v, p, PAGE_PRESENT + PAGE_WRITABLE)
    \/ nops < MaxTableOps /\ \E v \in PageArgs : UnmapPage(v)
    \/ nops < MaxTableOps /\ \E sz \in TableSizeArgs : Vmalloc(sz)
    \/ nops < MaxTableOps /\ \E q \in VfreeArgs : Vfree(q)

SpecTables == InitVirt /\ [][NextTables]_vars

\* directory slot i
DirectorySlot(i) == Read(Cur, Add32(paging.PAGE_DIRECTORY_ADDR, 4 * i))

\* C22: in every step after paging::init has returned, PAGING_ENABLED stays
\* true, PAGE_DIRECTORY_ADDR is unchanged, every present directory slot stays
\* present with the same table frame, and every table frame has its bit set.
C22_TablesStable ==
    [][(phase \in {"paging", "heap", "run"} /\ halted = "") =>
          /\ paging'.PAGING_ENABLED
          /\ paging'.PAGE_DIRECTORY_ADDR = paging.PAGE_DIRECTORY_ADDR
          /\ \A i \in 0 .. (ENTRIES_PER_TABLE - 1) :
                 entry_present(DirectorySlot(i)) =>
                     /\ entry_present(DirectorySlot(i)')
                     /\ entry_addr(DirectorySlot(i)') = entry_addr(DirectorySlot(i))
          /\ \A t \in PageTableFrames' :
                 is_frame_used(Cur', FrameAddr(t))]_vars

----------------------------------------------------------------------------
(* alloc_frame                                                             *)

\* the free frames of lo..hi-1
FreeIn(lo, hi) == {f \in FreeFrameSet : lo <= f /\ f < hi}

\* the lowest frame of a non-empty set
Lowest(fs) == CHOOSE f \in fs : \A g \in fs : f <= g

\* the frame alloc_frame is to pick: the lowest free one of
\* LOW_END_FRAME..TOTAL_FRAMES-1 if there is one, else the lowest free one
\* below LOW_END_FRAME
Preferred ==
    IF FreeIn(LOW_END_FRAME, frame.TOTAL_FRAMES) # {}
    THEN Lowest(FreeIn(LOW_END_FRAME, frame.TOTAL_FRAMES))
    ELSE Lowest(FreeIn(0, LOW_END_FRAME))

\* C23: alloc_frame returns the address of the lowest free frame of
\* 256..TOTAL_FRAMES-1 if there is one and else of the lowest free frame below
\* 256, sets that bit and no other and adds one to USED_FRAMES; it returns the
\* failure value 0 only when no frame below TOTAL_FRAMES is free, and then
\* leaves BITMAP and USED_FRAMES as they were.
C23_AllocFrame ==
    [][Called("alloc_frame") =>
          /\ FreeIn(0, frame.TOTAL_FRAMES) # {} =>
                 /\ ret'.r = FrameAddr(Preferred)
                 /\ FreeFrameSet' = FreeFrameSet \ {Preferred}
                 /\ frame'.USED_FRAMES = frame.USED_FRAMES + 1
          /\ ret'.r = 0 =>
                 /\ FreeIn(0, frame.TOTAL_FRAMES) = {}
                 /\ frame' = frame]_vars

----------------------------------------------------------------------------
(* kbrk over frames it cannot have                                         *)

\* the frames kbrk reserves to move the break to new_brk
GrowthFrames(new_brk) ==
    IF UGt(new_brk, heap.HEAP_END)
    THEN LET n == UDiv(Add32(Sub32(new_brk, heap.HEAP_END), PAGE_SIZE - 1),
                       PAGE_SIZE)
         IN  {frame_of(heap.HEAP_END) + i : i \in 0 .. (n - 1)}
    ELSE {}

\* frame f cannot be reserved for the arena: it is past the detected memory,
\* or its bit is already set for another owner
CannotReserve(f) == f >= frame.TOTAL_FRAMES \/ bitmap_test(frame, f)

\* the break a kmalloc(size) asks kbrk for when no free block fits, else the
\* break as it is
KmallocBreak(size) ==
    LET alloc_size == kmalloc_round(size)
        hit == IF UGt(heap.HEAP_BRK, heap.HEAP_START)
               THEN find_fit(Cur, heap.HEAP_START, heap.HEAP_BRK, alloc_size)
               ELSE <<"end", heap.HEAP_START>>
    IN  IF size # 0 /\ hit[1] = "end"
        THEN Add32(heap.HEAP_BRK, Add32(HEADER_SIZE, alloc_size))
        ELSE heap.HEAP_BRK

\* C24: when moving the break needs a frame that is past TOTAL_FRAMES or whose
\* bit is already set, kbrk returns 0 and leaves HEAP_BRK and HEAP_END as they
\* were, and a kmalloc that has to grow the arena that way returns null.
C24_GrowthRefused ==
    [][/\ (/\ Called("kbrk")
           /\ \E f \in GrowthFrames(Add32(heap.HEAP_BRK, ret'.a[1])) :
                  CannotReserve(f))
          => (ret'.r = 0 /\ heap' = heap)
       /\ (/\ Called("kmalloc")
           /\ \E f \in GrowthFrames(KmallocBreak(ret'.a[1])) :
                  CannotReserve(f))
          => (ret'.r = 0 /\ heap'.HEAP_BRK = heap.HEAP_BRK)]_vars

----------------------------------------------------------------------------
(* free_frames                                                             *)

\* the frames free_frames(addr, count) goes over
FramesGiven(addr, count) ==
    {Add32(UDiv(addr, PAGE_SIZE), i) : i \in 0 .. (count - 1)}

\* those of them that have a bit in BITMAP and had it set at the call
SetAmong(fs) == {f \in fs : 0 <= f /\ f < MAX_FRAMES /\ f \notin FreeFrameSet}

\* C25: free_frames(addr, count) never halts; it clears the bits that were set
\* among the count frames from addr and no other, and takes from USED_FRAMES
\* exactly the number of bits it cleared.
C25_FreeFrames ==
    [][Called("free_frames") =>
          LET cleared == SetAmong(FramesGiven(ret'.a[1], ret'.a[2]))
          IN  /\ halted' = ""
              /\ FreeFrameSet' = FreeFrameSet \cup cleared
              /\ frame'.TOTAL_FRAMES = frame.TOTAL_FRAMES
              /\ frame'.USED_FRAMES = frame.USED_FRAMES - Cardinality(cleared)]_vars

----------------------------------------------------------------------------
(* reserve_frame                                                           *)

\* C26: reserve_frame(addr) never halts; after it the frame of addr has its
\* bit set and no other bit has changed, USED_FRAMES is one more if the frame
\* was free and unchanged if it was used, and a second reserve_frame(addr)
\* right after it changes nothing.
C26_ReserveFrame ==
    [][Called("reserve_frame") =>
          LET addr == ret'.a[1]
              f == UDiv(addr, PAGE_SIZE)
          IN  /\ halted' = ""
              /\ is_frame_used(Cur', addr)
              /\ FreeFrameSet' = FreeFrameSet \ {f}
              /\ frame'.TOTAL_FRAMES = frame.TOTAL_FRAMES
              /\ frame'.USED_FRAMES =
                     IF f \in FreeFrameSet THEN frame.USED_FRAMES + 1
                     ELSE frame.USED_FRAMES
              /\ reserve_frame(Cur', addr) = Cur']_vars

\* a free frame reserved, then reserved again: counted once
C26_Witness ==
    /\ ret.op = "reserve_frame"
    /\ nops = 2
    /\ ret.a[1] = FrameAddr(325) + 4
    /\ is_frame_used(Cur, FrameAddr(325))
    /\ frame.USED_FRAMES = used_at_init + 1

----------------------------------------------------------------------------
(* vmalloc with VMALLOC_TABLE full                                         *)

\* 640 KB + 1308 KB of RAM: 262 frames follow the kernel image, which is the
\* directory, two page tables, one frame for each of the 256 entries of
\* VMALLOC_TABLE, and three more
BootFill ==
    Boot(65, 640, 1308,
         <<MmapEntry(0, 654336, 1), MmapEntry(654336, 1024, 2),
           MmapEntry(1048576, 1339392, 1)>>, 0)

\* the state after n calls of vmalloc(PAGE_SIZE) in a row, as a caller's loop
\* makes them; the calls are composed by halves
RECURSIVE vmalloc_times(_, _)
vmalloc_times(S, n) ==
    IF n = 0 \/ S.halted # "" THEN S
    ELSE IF n = 1 THEN vmalloc(S, PAGE_SIZE).S
    ELSE Then(vmalloc_times(S, n \div 2),
              LAMBDA T : vmalloc_times(T, n - (n \div 2)))

\* a loop of vmalloc(PAGE_SIZE) calls that leaves one entry of VMALLOC_TABLE
\* inactive, taken as one step of the caller
FillTable ==
    /\ Running /\ Step
    /\ \E T \in {vmalloc_times(Cur, MAX_VMALLOC_ENTRIES - 1)} :
           /\ Commit(T)
           /\ ret' = Call("vmalloc_loop", <<PAGE_SIZE, MAX_VMALLOC_ENTRIES - 1>>,
                          T.virt.VMALLOC_COUNT)
           /\ vgiven' = vgiven \cup {T.virt.VMALLOC_TABLE[i] :
                                        i \in DOMAIN T.virt.VMALLOC_TABLE}
    /\ UNCHANGED <<live, owned>>

\* the caller's steps after memory::init: the loop and three calls
MaxFullOps == 4

ActiveEntries == Cardinality(DOMAIN virt.VMALLOC_TABLE)

\* the sizes asked for with one slot or no slot left: one page, those of
\* VSizeArgs, more pages than there are free frames, and 768 MB
FullSizeArgs == VSizeArgs \cup {PAGE_SIZE, 5 * PAGE_SIZE, U32(12288, 0)}

\* a caller that fills VMALLOC_TABLE page by page and, with one slot or no
\* slot left, asks for the sizes of FullSizeArgs and frees the first entry
NextFull ==
    \/ MemInit
    \/ nops < MaxFullOps /\ ActiveEntries = 0 /\ FillTable
    \/ nops < MaxFullOps /\ ActiveEntries >= MAX_VMALLOC_ENTRIES - 1
                         /\ \E sz \in FullSizeArgs : Vmalloc(sz)
    \/ nops < MaxFullOps /\ ActiveEntries = MAX_VMALLOC_ENTRIES
                         /\ Vfree(VMALLOC_BASE)

SpecFull == InitWith({BootFill}) /\ [][NextFull]_vars

\* the vbrk call inside vmalloc(size) returns 0
VbrkFails(size) == vbrk(Cur, align_up(size, PAGE_SIZE)).r = 0

\* C27: a vmalloc(size) called with all 256 entries of VMALLOC_TABLE active
\* returns null and leaves VMALLOC_BRK, the table, the page tables, BITMAP and
\* USED_FRAMES as they were; a vmalloc whose vbrk call fails activates no
\* entry and returns null.
C27_TableFull ==
    [][Called("vmalloc") =>
          /\ ActiveEntries = MAX_VMALLOC_ENTRIES =>
                 /\ ret'.r = 0
                 /\ halted' = ""
                 /\ UNCHANGED <<virt, paging, mem, frame>>
          /\ (ret'.a[1] # 0 /\ VbrkFails(ret'.a[1])) =>
                 /\ ret'.r = 0
                 /\ virt'.VMALLOC_TABLE = virt.VMALLOC_TABLE
                 /\ virt'.VMALLOC_COUNT = virt.VMALLOC_COUNT]_vars

\* vmalloc of one byte refused with the table full while frames are free
C27_Witness ==
    /\ ret.op = "vmalloc" /\ ret.a[1] = 1 /\ ret.r = 0
    /\ ActiveEntries = MAX_VMALLOC_ENTRIES
    /\ virt.VMALLOC_COUNT = MAX_VMALLOC_ENTRIES
    /\ FreeIn(LOW_END_FRAME, frame.TOTAL_FRAMES) # {}
    /\ halted = ""

----------------------------------------------------------------------------
(* vsize and ksize                                                         *)

MaxSizeOps == 3

\* the pointers ksize is asked about: null, the pointers kmalloc can return in
\* three calls and the word after each of them, and an address past the arena
KsizeArgs ==
    {0, Add32(heap.HEAP_END, PAGE_SIZE)} \cup
    {Add32(heap.HEAP_BRK, d) : d \in {HEADER_SIZE, HEADER_SIZE + 4}} \cup
    live \cup {Add32(q, 4) : q \in live} \cup
    (IF ret.op = "kfree" THEN {ret.a[1]} ELSE {})

\* sizes at the edges of kmalloc's rounding: none, below MIN_ALLOC, not a
\* multiple of 4, the largest u32, and the size of a block of two whole pages
EdgeSizeArgs == {0, 1, 10, U32(65535, 65535), 2 * PAGE_SIZE - HEADER_SIZE}

NextSize ==
    \/ MemInit
    \/ nops < MaxSizeOps /\ \E sz \in VSizeArgs : Vmalloc(sz)
    \/ nops < MaxSizeOps /\ \E q \in VmallocBases : Vfree(q)
    \/ nops < MaxSizeOps /\ \E q \in VfreeArgs : Vsize(q)
    \/ nops < MaxSizeOps /\ \E sz \in SizeArgs \cup EdgeSizeArgs : Kmalloc(sz)
    \/ nops < MaxSizeOps /\ \E q \in live : Kfree(q)
    \/ nops < MaxSizeOps /\ \E q \in KsizeArgs : Ksize(q)

SpecSize == InitVirt /\ [][NextSize]_vars

\* C28: after a vmalloc(size) with size > 0 that returns a non-null ptr,
\* vsize(ptr) is size rounded up to whole pages and so at least size; vsize of
\* a pointer that is not the base of an active entry is 0; vsize never halts
\* and changes no state.
C28_Vsize ==
    [][/\ (Called("vmalloc") /\ ret'.a[1] # 0 /\ ret'.r # 0) =>
              LET vs == vsize(Cur', ret'.r)
              IN  /\ vs % PAGE_SIZE = 0
                  /\ UGe(vs, ret'.a[1])
                  /\ ULt(Sub32(vs, ret'.a[1]), PAGE_SIZE)
       /\ Called("vsize") =>
              /\ halted' = ""
              /\ UNCHANGED <<frame, paging, heap, virt, mem>>
              /\ ret'.a[1] \notin VmallocBases => ret'.r = 0]_vars

\* C29: ksize(ptr) is 0 for every ptr that is not a live kmalloc allocation
\* (never returned, freed since, or inside a block), and the size stored in
\* the block's header for a live one.
C29_Ksize ==
    [][Called("ksize") =>
          /\ halted' = ""
          /\ UNCHANGED <<frame, paging, heap, virt, mem>>
          /\ ret'.r = IF ret'.a[1] \in live
                      THEN block_size(Cur, Sub32(ret'.a[1], HEADER_SIZE))
                      ELSE 0]_vars

----------------------------------------------------------------------------
(* unmap_page                                                              *)

\* C30: unmap_page(v) returns 0, its `not mapped` value, exactly when v has no
\* present mapping at the call, and then writes no page-table entry; when v is
\* mapped, to whatever frame, it clears the entry and returns the address of
\* the mapped frame.
C30_Unmap ==
    [][Called("unmap_page") =>
          LET v == ret'.a[1]
          IN  /\ halted' = ""
              /\ (ret'.r = 0) <=> ~is_mapped(Cur, v)
              /\ IF is_mapped(Cur, v)
                 THEN /\ ret'.r = entry_addr(pte_of(Cur, v))
                      /\ ~is_mapped(Cur', v)
                      /\ pte_of(Cur', v) = 0
                 ELSE mem' = mem]_vars

----------------------------------------------------------------------------
(* kmalloc: split or hand out whole                                        *)

\* what the first-fit walk of kmalloc(size) finds in the state as it is
FitOf(size) ==
    IF UGt(heap.HEAP_BRK, heap.HEAP_START)
    THEN find_fit(Cur, heap.HEAP_START, heap.HEAP_BRK, kmalloc_round(size))
    ELSE <<"end", heap.HEAP_START>>

\* kmalloc(10), kfree of its result, kmalloc(8), from state S: the two
\* pointers and the two sizes ksize reports
TenThenEight(S) ==
    LET a == kmalloc(S, 10)
        b == Then(kfree(a.S, a.r), LAMBDA T : kmalloc(T, 8))
    IN  [first |-> a.r, first_size |-> ksize(a.S, a.r),
         second |-> b.r, second_size |-> ksize(b.S, b.r)]

\* the split rule alone: a kmalloc that finds a fitting free block of size B
\* for the rounded request R returns that block; if B - R > 16 the block keeps
\* R bytes and a free block of B - R - 8 bytes follows it, else the block is
\* handed out with its size B
SplitRule ==
    [][(Called("kmalloc") /\ ret'.a[1] # 0 /\ FitOf(ret'.a[1])[1] = "fit") =>
          LET h == FitOf(ret'.a[1])[2]
              B == block_size(Cur, h)
              R == kmalloc_round(ret'.a[1])
              rest == Add32(h, Add32(HEADER_SIZE, R))
          IN  /\ ret'.r = data_ptr(h)
              /\ ~is_free(Cur', h)
              /\ IF UGt(Sub32(B, R), HEADER_SIZE + MIN_ALLOC)
                 THEN /\ block_size(Cur', h) = R
                      /\ block_size(Cur', rest) = Sub32(Sub32(B, R), HEADER_SIZE)
                      /\ is_free(Cur', rest)
                 ELSE block_size(Cur', h) = B]_vars

\* the scenario alone, when memory::init has returned
TenThenEightReuses ==
    (phase = "run" /\ nops = 0 /\ halted = "") =>
        LET t == TenThenEight(Cur)
        IN  /\ t.first # 0
            /\ t.first_size = 12
            /\ t.second = t.first
            /\ t.second_size = 12

\* C31: a kmalloc that finds a fitting free block of size B for the rounded
\* request R splits it iff B - R > 16, leaving R bytes in the block and a free
\* block of B - R - 8 bytes right after it, and otherwise hands the block out
\* with its size B; and kmalloc(10) yields a 12-byte block which, once freed,
\* kmalloc(8) returns again with ksize still 12.
C31_SplitOrWhole == []TenThenEightReuses /\ SplitRule

----------------------------------------------------------------------------
(* kfree: forward coalescing                                               *)

\* the addresses of the words that differ between the state before and the
\* state after the step
ChangedWords ==
    {FrameAddr(f) + 4 * i :
        f \in {g \in DOMAIN mem' : Page(Cur', g) # Page(Cur, g)},
        i \in 0 .. (WORDS_PER_PAGE - 1)} \cap
    {a \in {FrameAddr(f) + 4 * i :
                f \in DOMAIN mem', i \in 0 .. (WORDS_PER_PAGE - 1)} :
        Word(Cur', a) # Word(Cur, a)}

----------------------------------------------------------------------------
(* kmalloc: first fit, then growth                                         *)

\* the headers of the chain from h up to brk, following at most n links
RECURSIVE chain_blocks(_, _, _)
chain_blocks(h, brk, n) ==
    IF n = 0 \/ UGe(h, brk) THEN {}
    ELSE {h} \cup chain_blocks(next(Cur, h), brk, n - 1)

\* the block at h is free and holds at least R bytes
Fits(h, R) == is_free(Cur, h) /\ UGe(block_size(Cur, h), R)

\* the block kfree has just released lies in the arena and fits R
FreedBlockFits(R) ==
    /\ ret.op = "kfree" /\ ret.a[1] # 0
    /\ UGe(Sub32(ret.a[1], HEADER_SIZE), heap.HEAP_START)
    /\ ULt(ret.a[1], heap.HEAP_BRK)
    /\ Fits(Sub32(ret.a[1], HEADER_SIZE), R)

\* C33: a returning kmalloc(size), size > 0, hands out the lowest free block
\* of the chain that holds the rounded size R; it grows the arena only when no
\* free block in [HEAP_START, HEAP_BRK) fits, and then puts a used block of R
\* bytes at the old break and moves the break by exactly 8 + R.
C33_FirstFit ==
    [][(Called("kmalloc") /\ ret'.a[1] # 0 /\ halted' = "") =>
          LET R == kmalloc_round(ret'.a[1])
              blocks == chain_blocks(heap.HEAP_START, heap.HEAP_BRK, MaxWalk)
              fitting == {h \in blocks : Fits(h, R)}
              brk == heap.HEAP_BRK
          IN  IF fitting # {}
              THEN /\ \E h \in fitting :
                          /\ ret'.r = data_ptr(h)
                          /\ \A g \in fitting : ULe(h, g)
                   /\ heap'.HEAP_BRK = brk
              ELSE /\ ~FreedBlockFits(R)
                   /\ ret'.r = data_ptr(brk)
                   /\ heap'.HEAP_BRK = Add32(brk, Add32(HEADER_SIZE, R))
                   /\ block_size(Cur', brk) = R
                   /\ ~is_free(Cur', brk)]_vars

----------------------------------------------------------------------------
(* kmalloc: what it returns                                                *)

\* C34: kmalloc(0) returns null and changes nothing; a kmalloc(size) with
\* size > 0 that returns non-null returns a pointer that is a multiple of 4
\* whose ksize is at least size, at least 8 and a multiple of 4.
C34_KmallocResult ==
    [][Called("kmalloc") =>
          IF ret'.a[1] = 0
          THEN /\ ret'.r = 0
               /\ halted' = ""
               /\ UNCHANGED <<frame, paging, heap, virt, mem>>
          ELSE (ret'.r # 0 /\ halted' = "") =>
                   /\ ret'.r % 4 = 0
                   /\ UGe(ksize(Cur', ret'.r), ret'.a[1])
                   /\ UGe(ksize(Cur', ret'.r), MIN_ALLOC)
                   /\ ksize(Cur', ret'.r) % 4 = 0]_vars

----------------------------------------------------------------------------
(* the break and the reserved end                                          *)

\* HEAP_START <= HEAP_BRK <= HEAP_END, HEAP_END the first page boundary at or
\* above HEAP_BRK, and every frame of [HEAP_START, HEAP_END) with its bit set
ArenaShape(S) ==
    /\ ULe(S.heap.HEAP_START, S.heap.HEAP_BRK)
    /\ ULe(S.heap.HEAP_BRK, S.heap.HEAP_END)
    /\ S.heap.HEAP_END % PAGE_SIZE = 0
    /\ ULt(Sub32(S.heap.HEAP_END, S.heap.HEAP_BRK), PAGE_SIZE)
    /\ \A f \in frame_of(S.heap.HEAP_START) .. frame_of(S.heap.HEAP_END) :
           ULt(FrameAddr(f), S.heap.HEAP_END) => bitmap_test(S.frame, f)

\* C35: in every state after heap::init the arena has the shape above; from
\* then on HEAP_BRK never decreases, and a kbrk(increment) that returns
\* non-zero returns the old break and moves HEAP_BRK by exactly increment.
C35_BreakAndEnd ==
    [][(phase' \in {"heap", "run"} /\ halted' = "") =>
          /\ ArenaShape(Cur')
          /\ phase \in {"heap", "run"} =>
                 UGe(heap'.HEAP_BRK, heap.HEAP_BRK)
          /\ (Called("kbrk") /\ ret'.r # 0) =>
                 /\ ret'.r = heap.HEAP_BRK
                 /\ heap'.HEAP_BRK = Add32(heap.HEAP_BRK, ret'.a[1])]_vars

----------------------------------------------------------------------------
(* map_page and the frame allocator                                        *)

\* C36: a map_page(v, p, flags) that returns takes a frame only when v's
\* directory slot is not present: then exactly one free frame becomes used
\* and is installed as the table, with the entry of v set and the other 1023
\* not present; when the slot is present, BITMAP, USED_FRAMES and the slot
\* stay as they were, also when v was already mapped.
C36_MapTakesOneTable ==
    [][(Called("map_page") /\ halted' = "") =>
          LET v == ret'.a[1]
              pte == make_pte(ret'.a[2], or_present(ret'.a[3]))
          IN  /\ pte_of(Cur', v) = pte
              /\ IF entry_present(pde_of(Cur, v))
                 THEN /\ frame' = frame
                      /\ pde_of(Cur', v) = pde_of(Cur, v)
                 ELSE \E f \in FreeFrameSet :
                          /\ FreeFrameSet' = FreeFrameSet \ {f}
                          /\ frame'.USED_FRAMES = frame.USED_FRAMES + 1
                          /\ entry_present(pde_of(Cur', v))
                          /\ entry_addr(pde_of(Cur', v)) = FrameAddr(f)
                          /\ \A i \in 0 .. (ENTRIES_PER_TABLE - 1) :
                                 i # pt_index(v) =>
                                     ~entry_present(
                                         Read(Cur', FrameAddr(f) + 4 * i))]_vars

\* a second map_page into the table the first one installed: one frame taken
\* by the first call, none by the second
C36_Witness ==
    /\ ret.op = "map_page" /\ halted = "" /\ nops = 2
    /\ ret.a[1] = VMALLOC_BASE /\ ret.a[2] = FrameAddr(325)
    /\ frame.USED_FRAMES = used_at_init + 1
    /\ virt_to_phys(Cur, VMALLOC_BASE) = <<TRUE, FrameAddr(325)>>
    /\ is_frame_used(Cur, 0)

----------------------------------------------------------------------------
(* the walk of kmalloc ends                                                *)

\* from header h every link leads to a higher address, and after at most n
\* links the walk stands exactly at brk
RECURSIVE walk_reaches(_, _, _)
walk_reaches(h, brk, n) ==
    IF h = brk THEN TRUE
    ELSE IF n = 0 \/ UGt(h, brk) THEN FALSE
    ELSE UGt(next(Cur, h), h) /\ walk_reaches(next(Cur, h), brk, n - 1)

\* C37: no kmalloc call walks without end, and in every state after
\* heap::init the walk from HEAP_START advances with every link and arrives at
\* HEAP_BRK: no stored size makes it stall, wrap around or step past the
\* break.
C37_WalkEnds ==
    /\ halted # "kmalloc: walk does not end"
    /\ (phase \in {"heap", "run"} /\ halted = "") =>
           walk_reaches(heap.HEAP_START, heap.HEAP_BRK, MaxWalk)

----------------------------------------------------------------------------
(* the pages of the live vmalloc regions                                   *)

\* the pages of the active entries: <<i, v>> is the page at v of entry i
LivePages ==
    UNION {{<<i, Add32(virt.VMALLOC_TABLE[i].vaddr, Mul32(k, PAGE_SIZE))>> :
               k \in 0 .. (UDiv(virt.VMALLOC_TABLE[i].size, PAGE_SIZE) - 1)} :
           i \in DOMAIN virt.VMALLOC_TABLE}

\* the page at v is mapped through present, writable entries to a frame whose
\* bit is set
BackedPage(S, v) ==
    /\ virt_to_phys(S, v)[1]
    /\ entry_writable(pde_of(S, v))
    /\ entry_writable(pte_of(S, v))
    /\ is_frame_used(S, virt_to_phys(S, v)[2])

\* C38: after any vmalloc, vfree, kmalloc and kfree calls every page of every
\* live vmalloc region is mapped present and writable to a frame that is
\* marked used, and no frame backs two different live vmalloc pages.
C38_LivePagesBacked ==
    (phase = "run" /\ halted = "") =>
        /\ \A p \in LivePages : BackedPage(Cur, p[2])
        /\ \A p, q \in LivePages :
               p # q => virt_to_phys(Cur, p[2])[2] # virt_to_phys(Cur, q[2])[2]

----------------------------------------------------------------------------
(* the user flag of directory and table entries                            *)

entry_user(entry) == (entry \div PAGE_USER) % 2 = 1

\* the present directory entries, by slot
PresentSlots ==
    {d \in 0 .. (ENTRIES_PER_TABLE - 1) :
        entry_present(Read(Cur, Add32(paging.PAGE_DIRECTORY_ADDR, 4 * d)))}

\* table entry t of the table that directory slot d names
TableEntry(d, t) ==
    Read(Cur, Add32(entry_addr(Read(Cur, Add32(paging.PAGE_DIRECTORY_ADDR,
                                               4 * d))), 4 * t))

\* C39: after any map_page calls every present table entry with PAGE_USER
\* lies in a table whose directory entry has PAGE_USER too: map_page(v, p,
\* flags with PAGE_USER) leaves the directory entry of v user-accessible, also
\* when the table of v was there before the call.
C39_UserDirectory ==
    (phase = "run" /\ halted = "") =>
        \A d \in PresentSlots : \A t \in 0 .. (ENTRIES_PER_TABLE - 1) :
            (entry_present(TableEntry(d, t)) /\ entry_user(TableEntry(d, t)))
                => entry_user(Read(Cur, Add32(paging.PAGE_DIRECTORY_ADDR,
                                              4 * d)))

----------------------------------------------------------------------------
(* alloc_frame called from two contexts                                    *)

\* alloc_frame has no lock and does not disable interrupts.  Context c is
\* "out" of alloc_frame or at "set": its bitmap_test has read a clear bit for
\* its local `frame` and its bitmap_set has not run yet.  The tests that read a
\* set bit are taken in one step with the first test that reads a clear one.
\* When callers.cs holds, calls run with interrupts disabled: a context enters
\* alloc_frame only while no other context is inside it.

MaxRaceOps == 3

\* context c enters alloc_frame and scans up to the frame whose test reads a
\* clear bit, or to `0 // Out of memory`
AllocFrameTest(c) ==
    /\ Running /\ Step
    /\ callers.at[c].pc = "out"
    /\ callers.cs => \A d \in 1 .. 2 : callers.at[d].pc = "out"
    /\ LET a == first_clear(frame, LOW_END_FRAME, frame.TOTAL_FRAMES)
           b == first_clear(frame, 0, LOW_END_FRAME)
           f == IF a # -1 THEN a ELSE b
       IN  IF f = -1
           THEN /\ callers' = [callers EXCEPT !.at[c].r = 0]
                /\ ret' = Call("alloc_frame", <<c>>, 0)
           ELSE /\ callers' = [callers EXCEPT !.at[c].pc = "set",
                                              !.at[c].frame = f]
                /\ ret' = ret
    /\ UNCHANGED <<boot, TOTAL_MEMORY, frame, paging, heap, virt, mem, halted,
                   live, owned, vgiven>>

\* context c goes on after its test: bitmap_set(frame), USED_FRAMES += 1,
\* return frame * PAGE_SIZE
AllocFrameSet(c) ==
    /\ Running
    /\ callers.at[c].pc = "set"
    /\ LET f == callers.at[c].frame
       IN  /\ frame' = [bitmap_set(frame, f) EXCEPT
                            !.USED_FRAMES = Add32(frame.USED_FRAMES, 1)]
           /\ callers' = [callers EXCEPT !.at[c].pc = "out",
                                         !.at[c].r = Mul32(f, PAGE_SIZE)]
           /\ ret' = Call("alloc_frame", <<c>>, Mul32(f, PAGE_SIZE))
           /\ owned' = owned \cup {Mul32(f, PAGE_SIZE)}
    /\ UNCHANGED <<phase, boot, TOTAL_MEMORY, paging, heap, virt, mem, halted,
                   live, nops, used_at_init, vgiven>>

NextRace ==
    \/ MemInit
    \/ nops < MaxRaceOps /\ \E c \in 1 .. 2 : AllocFrameTest(c)
    \/ \E c \in 1 .. 2 : AllocFrameSet(c)

\* the boots of BootConfigs, with and without interrupts disabled around calls
SpecRace == InitMode(BootConfigs, BOOLEAN) /\ [][NextRace]_vars

\* both contexts are out of alloc_frame and the last call of each returned the
\* same frame address
SameFrameTwice ==
    /\ \A c \in 1 .. 2 : callers.at[c].pc = "out"
    /\ callers.at[1].r # 0
    /\ callers.at[1].r = callers.at[2].r

\* C40: alloc_frame is not safe without mutual exclusion.  Two calls that
\* interleave between the bit test and the bit set can return the same frame
\* address; when every call runs to its end before the next one starts, two
\* contexts never hold the same returned address.
C40_SameFrameOnlyInterleaved == SameFrameTwice => ~callers.cs

\* two interleaved calls have returned the same address, and USED_FRAMES
\* counts the one frame twice
C40_Witness ==
    /\ SameFrameTwice
    /\ ~callers.cs
    /\ nops = 2
    /\ frame.USED_FRAMES = used_at_init + 2
    /\ Cardinality(owned) = 1

====
